---- MODULE Spec2Model ----
(***************************************************************************)
(* Model of backend/app.py: the answer transformation, the per-task        *)
(* processing pipeline (process_one_task_full / process_one_task) and the  *)
(* parallel batch endpoints (/complete).                                   *)
(*                                                                         *)
(* Python values are records [t, v] with v a string, so that values of     *)
(* different Python types can be compared.                                 *)
(***************************************************************************)
EXTENDS Integers, Sequences, FiniteSets, TLC

VARIABLES variant, mock, task_obj, time_min, time_max, is_draft, run,
          tasks, fut, outs, results, returned, METRICS,
          tj_details, tj_answers_in, tj_out, tj_again,
          thr, pushes

taskVars  == <<task_obj, run>>
batchVars == <<tasks, fut, outs, results, returned, METRICS>>
tjVars    == <<tj_details, tj_answers_in, tj_out, tj_again>>
cfgVars   == <<variant, mock, time_min, time_max, is_draft>>
srvVars   == <<thr, pushes>>
vars      == <<variant, mock, task_obj, time_min, time_max, is_draft, run,
               tasks, fut, outs, results, returned, METRICS,
               tj_details, tj_answers_in, tj_out, tj_again,
               thr, pushes>>

(***************************************************************************)
(* Bounds of the model.                                                    *)
(***************************************************************************)
MaxTasks     == 3   \* largest batch of the general batch specification
PoolTasks    == 7   \* batch size of the worker-pool specification
MaxMinutes   == 2   \* largest pacing value (minutes) a caller supplies
MaxQuestions == 2   \* largest number of questions of a fetched task
MaxOptions   == 2   \* largest number of options of a question
MaxPhrase    == 3   \* largest number of items of a fill-words phrase
MaxThreads   == 3   \* largest number of requests served concurrently
MaxPushes    == 202 \* largest number of outcomes pushed to the history
MetricsTasks == 3   \* largest batch of the metrics specification
MetricsThreads == 3 \* most request threads beside the batch in that specification

(***************************************************************************)
(* Program constants.                                                      *)
(***************************************************************************)
WorkerBound  == 6     \* min(6, ...) of the /complete endpoints
SleepCap     == 5     \* min(simulated_delay, 5)
HistoryLimit == 200   \* metrics_push_processed(res, limit=200)

(***************************************************************************)
(* Python values.                                                          *)
(***************************************************************************)
PyNone    == [t |-> "none", v |-> ""]
PyInt(s)  == [t |-> "int",  v |-> s]
PyStr(s)  == [t |-> "str",  v |-> s]
PyBool(b) == [t |-> "bool", v |-> IF b THEN "True" ELSE "False"]

\* Python truthiness (bool(x), `not x`, `x or y`)
Truthy(x) == CASE x.t = "none" -> FALSE
               [] x.t = "int"  -> x.v # "0"
               [] x.t = "str"  -> x.v # ""
               [] x.t = "bool" -> x.v = "True"
               [] OTHER        -> TRUE

\* Python `a or b`
PyOr(a, b) == IF Truthy(a) THEN a ELSE b

\* Python str(x)
PyToStr(x) == IF x.t = "none" THEN "None" ELSE x.v

\* max(a, b), min(a, b)
Max(a, b) == IF a >= b THEN a ELSE b
Min(a, b) == IF a <= b THEN a ELSE b


(***************************************************************************)
(* Data of a fetched task (JSON).                                          *)
(*   item     : [isDict, value]  an element of a phrase / sentences / ids  *)
(*              list: a dict {"value": v} or the raw scalar v              *)
(*   option   : [key, kind, id, correct, hasAnswer, answer, list]          *)
(*              kind "dict": a dict with the fields id, correct and        *)
(*              (when hasAnswer) answer; kind "scalar": the scalar answer; *)
(*              kind "list": the list `list`.  key is the option's key     *)
(*              when options is a dict.                                    *)
(*   options  : [shape, items], shape "absent" | "dict" | "list"           *)
(*   question : [isDict, id, qtype, opts, comment, answer]                 *)
(*   details  : [present, wrap, hasQ, qs]; wrap = the questions sit under  *)
(*              a top-level "data" key                                     *)
(* Keys that the code looks up and that are not fields here (question_id,  *)
(* qid, question_type, kind, optionId, key, text, value of a question,     *)
(* sentences / phrase of a question, questions_list) are absent.           *)
(***************************************************************************)
NoOpts    == [shape |-> "absent", items |-> <<>>]
EmptyDict == [shape |-> "dict", items |-> <<>>]
NoDetails == [present |-> FALSE, wrap |-> FALSE, hasQ |-> FALSE, qs |-> <<>>]

\* Answers: None, a scalar, a list, or a dict (sequence of [k, v] in
\* insertion order)
AnsNull    == [shape |-> "null",   val |-> PyNone, list |-> <<>>, map |-> <<>>]
AnsVal(x)  == IF x = PyNone THEN AnsNull
              ELSE [shape |-> "scalar", val |-> x, list |-> <<>>, map |-> <<>>]
AnsList(l) == [shape |-> "list", val |-> PyNone, list |-> l, map |-> <<>>]
AnsMap(m)  == [shape |-> "map",  val |-> PyNone, list |-> <<>>, map |-> m]

\* d[k] = v on an insertion-ordered dict
MapPut(m, k, v) ==
    IF \E i \in 1..Len(m) : m[i].k = k
    THEN [i \in 1..Len(m) |-> IF m[i].k = k THEN [k |-> k, v |-> v] ELSE m[i]]
    ELSE Append(m, [k |-> k, v |-> v])

\* out["answers"][key] = entry
PutEntry(answers, key, entry) ==
    [k \in (DOMAIN answers) \cup {key} |-> IF k = key THEN entry ELSE answers[k]]

Entry(qid, qtype, ans) == [question_id |-> qid, question_type |-> qtype, answer |-> ans]

FirstIdx(S) == CHOOSE i \in S : \A j \in S : i <= j

\* "k" in opts, for a dict opts
HasKey(opts, k) == \E i \in 1..Len(opts.items) : opts.items[i].key = k
\* opts[k]
AtKey(opts, k)  == opts.items[FirstIdx({i \in 1..Len(opts.items) : opts.items[i].key = k})]

\* the value of a list element or of options.answer as an answer
ValueOf(o) == IF o.kind = "list" THEN AnsList([i \in 1..Len(o.list) |-> o.list[i].value])
              ELSE AnsVal(o.answer)

\* bool(v) of an option value
OptTruthy(o) == CASE o.kind = "list"   -> Len(o.list) > 0
                  [] o.kind = "scalar" -> Truthy(o.answer)
                  [] OTHER             -> TRUE

\* re.sub("<[^<]+?>", "", s or "").strip() on the strings of the model
remove_html_tags(s) == CASE s = "<b>hi</b> there" -> "hi there"
                         [] s = " x "             -> "x"
                         [] OTHER                 -> s

\* s.strip() on the strings of the model
Strip(s) == IF s = " cloud " THEN "cloud" ELSE s

\* o.get("id") or o.get("optionId") or o.get("key")
OptId(o) == PyOr(PyOr(o.id, PyNone), PyNone)

\* o.get("correct") is True or o.get("correct") == 1
IsCorrect1(o) == o.correct = PyBool(TRUE) \/ o.correct = PyInt("1")

OrderSentencesTypes1 == {"order-sentences", "order_sentences", "orderSentences"}
FillWordsTypes1      == {"fill-words", "fill_words", "fillWords"}
TextTypes1           == {"text_ai", "text", "essay", "text-ai", "long_text"}
FillLettersTypes1    == {"fill-letters", "fill_letters", "fillLetters"}
MultipleChoiceTypes1 == {"multiple_choice", "multiple-choice", "single_choice", "single-choice"}
TextTypes2           == {"text_ai", "text", "essay"}
MultipleChoiceTypes2 == {"multiple_choice", "multiple-choice", "single_choice"}

RECURSIVE OddValues1(_, _)
\* vals of the fill-words branch: the items at odd 0-based indices
OddValues1(phrase, i) ==
    IF i > Len(phrase) THEN <<>>
    ELSE IF (i - 1) % 2 = 1
         THEN <<PyOr(PyOr(phrase[i].value, PyNone), PyStr(""))>> \o OddValues1(phrase, i + 1)
         ELSE OddValues1(phrase, i + 1)

RECURSIVE FoldDefault1(_, _, _, _, _)
\* the default branch: options mapped to {key: answer | False}; rnd[i] is the
\* string of the number random.randint(100000, 999999) returns for option i
FoldDefault1(shape, items, i, rnd, acc) ==
    IF i > Len(items) THEN acc
    ELSE LET o == items[i] IN
         IF shape = "dict"
         THEN FoldDefault1(shape, items, i + 1, rnd,
                  MapPut(acc, o.key,
                         IF o.kind = "dict"
                         THEN (IF o.hasAnswer THEN o.answer ELSE PyBool(FALSE))
                         ELSE PyBool(OptTruthy(o))))
         ELSE IF o.kind = "dict"
              THEN FoldDefault1(shape, items, i + 1, rnd,
                       MapPut(acc, PyToStr(PyOr(OptId(o), PyStr(rnd[i]))),
                              IF o.hasAnswer THEN o.answer ELSE PyBool(FALSE)))
              ELSE FoldDefault1(shape, items, i + 1, rnd, acc)

\* The mapping by qtype of the first definition for one question (a dict),
\* as [raised, answer]; raised = an exception inside the try block
Branch1(q, qtype, rnd) ==
    LET opts == IF q.opts.shape = "absent" \/ Len(q.opts.items) = 0
                THEN EmptyDict ELSE q.opts
        ok(a) == [raised |-> FALSE, answer |-> a]
        exc   == [raised |-> TRUE, answer |-> AnsNull]
        C     == {i \in 1..Len(opts.items) :
                      opts.items[i].kind = "dict" /\ IsCorrect1(opts.items[i])}
    IN
    IF qtype \in OrderSentencesTypes1
    THEN IF opts.shape = "dict" /\ HasKey(opts, "sentences")
            /\ OptTruthy(AtKey(opts, "sentences"))
         THEN IF AtKey(opts, "sentences").kind = "list"
              THEN ok(ValueOf(AtKey(opts, "sentences")))
              ELSE exc
         ELSE ok(AnsList(<<>>))
    ELSE IF qtype \in FillWordsTypes1
    THEN IF opts.shape = "list"
         THEN exc                                  \* a list has no .get
         ELSE IF HasKey(opts, "phrase") /\ OptTruthy(AtKey(opts, "phrase"))
              THEN IF AtKey(opts, "phrase").kind = "list"
                   THEN ok(AnsList(OddValues1(AtKey(opts, "phrase").list, 1)))
                   ELSE ok(AnsList(<<>>))
              ELSE ok(AnsList(OddValues1(<<>>, 1)))
    ELSE IF qtype \in TextTypes1
    THEN IF q.comment.t \in {"none", "str"}
         THEN ok(AnsMap(<<[k |-> "0", v |-> PyStr(remove_html_tags(PyOr(q.comment, PyStr("")).v))]>>))
         ELSE IF Truthy(q.comment) THEN exc        \* re.sub on a non-string
              ELSE ok(AnsMap(<<[k |-> "0", v |-> PyStr("")]>>))
    ELSE IF qtype \in FillLettersTypes1
    THEN IF opts.shape = "dict" /\ HasKey(opts, "answer")
         THEN ok(ValueOf(AtKey(opts, "answer")))
         ELSE IF q.answer # PyNone THEN ok(AnsVal(q.answer))
              ELSE ok(AnsMap(<<>>))
    ELSE IF qtype = "cloud"
    THEN IF opts.shape = "dict" /\ HasKey(opts, "ids") /\ AtKey(opts, "ids").kind = "list"
         THEN ok(ValueOf(AtKey(opts, "ids")))
         ELSE ok(AnsList(<<>>))
    ELSE IF qtype \in MultipleChoiceTypes1
    THEN IF opts.shape = "list"
         THEN LET chosen == IF C = {} THEN PyNone ELSE OptId(opts.items[FirstIdx(C)])
              IN IF chosen = PyNone /\ Len(opts.items) > 0
                 THEN IF opts.items[1].kind = "dict"
                      THEN ok(AnsVal(OptId(opts.items[1])))
                      ELSE exc
                 ELSE ok(AnsVal(chosen))
         ELSE IF C # {}
              THEN ok(AnsVal(PyStr(opts.items[FirstIdx(C)].key)))
              ELSE IF Len(opts.items) > 0
                   THEN ok(AnsVal(PyStr(opts.items[1].key)))
                   ELSE ok(AnsNull)
    ELSE ok(AnsMap(FoldDefault1(opts.shape, opts.items, 1, rnd, <<>>)))

(***************************************************************************)
(* transform_json_for_submission, first definition (answers_in accepted).  *)
(* answers_in : [isDict, entries], entries a sequence of                   *)
(*              [k, isDict, hasAnswer, answer]                             *)
(* The loop state is [answers, qid, bound, raised]: qid is the local       *)
(* variable, which keeps its value from one question to the next, bound    *)
(* tells "qid" in locals(), raised an exception leaving the function.      *)
(***************************************************************************)
NoAnswersIn == [isDict |-> TRUE, entries |-> <<>>]

Provided(answers_in, k) ==
    answers_in.entries[FirstIdx({i \in 1..Len(answers_in.entries) :
                                     answers_in.entries[i].k = k})]

\* q.get("type", "")
RawType(q) == IF q.qtype = PyNone THEN PyStr("") ELSE q.qtype

\* One iteration of the loop for a question that is a dict
Question1Dict(q, answers_in, rnd, st) ==
    LET qid == PyOr(PyOr(q.id, PyNone), PyNone)
        key == PyToStr(qid)
        st1 == [st EXCEPT !.qid = qid, !.bound = TRUE]
        handler == [st1 EXCEPT !.answers =
                       PutEntry(@, key, Entry(qid, RawType(q), AnsMap(<<>>)))]
    IN IF Truthy(q.qtype) /\ q.qtype.t # "str"
       THEN handler                                 \* .strip() of a non-string
       ELSE LET qtype == IF Truthy(q.qtype) THEN Strip(q.qtype.v) ELSE ""
                b     == Branch1(q, qtype, rnd)
            IN IF answers_in.isDict
                  /\ (\E i \in 1..Len(answers_in.entries) : answers_in.entries[i].k = key)
                  /\ Provided(answers_in, key).isDict
                  /\ Provided(answers_in, key).hasAnswer
               THEN [st1 EXCEPT !.answers =
                        PutEntry(@, key, Entry(qid, PyStr(qtype),
                                               AnsVal(Provided(answers_in, key).answer)))]
               ELSE IF b.raised THEN handler
                    ELSE [st1 EXCEPT !.answers =
                             PutEntry(@, key, Entry(qid, PyStr(qtype), b.answer))]

\* Question1 with a handler that does not touch q again: for a question that
\* is not a dict it writes an empty entry under the qid left by the previous
\* question
Question1Stale(q, answers_in, rnd, st) ==
    IF ~q.isDict
    THEN IF st.bound
         THEN [st EXCEPT !.answers =
                  PutEntry(@, PyToStr(st.qid), Entry(st.qid, PyStr(""), AnsMap(<<>>)))]
         ELSE st
    ELSE Question1Dict(q, answers_in, rnd, st)

\* One iteration of the loop over the questions
Question1(q, answers_in, rnd, st) ==
    IF ~q.isDict
    THEN \* q.get raises before qid is assigned; the handler calls q.get again
         IF st.bound THEN [st EXCEPT !.raised = TRUE] ELSE st
    ELSE Question1Dict(q, answers_in, rnd, st)

RECURSIVE Loop1(_, _, _, _, _)
Loop1(qs, i, answers_in, rnd, st) ==
    IF i > Len(qs) \/ st.raised THEN st
    ELSE Loop1(qs, i + 1, answers_in, rnd, Question1(qs[i], answers_in, rnd, st))

\* The result is [raised, err, answers]
transform_json_for_submission_1(task_details, answers_in, rnd) ==
    IF ~task_details.present
    THEN [raised |-> FALSE, err |-> "", answers |-> <<>>]
    ELSE LET questions == IF task_details.hasQ THEN task_details.qs ELSE <<>>
             st == Loop1(questions, 1,
                         IF answers_in.isDict /\ Len(answers_in.entries) = 0
                         THEN NoAnswersIn ELSE answers_in,
                         rnd,
                         [answers |-> <<>>, qid |-> PyNone, bound |-> FALSE, raised |-> FALSE])
         IN [raised |-> st.raised,
             err |-> IF st.raised THEN "AttributeError: object has no attribute 'get'" ELSE "",
             answers |-> st.answers]

(***************************************************************************)
(* transform_json_for_submission, second definition (task_json only).      *)
(***************************************************************************)
RECURSIVE OddValues2(_, _)
\* [item.get("value") for idx, item in enumerate(phrase) if idx % 2 == 1],
\* as [raised, list]
OddValues2(phrase, i) ==
    IF i > Len(phrase) THEN [raised |-> FALSE, list |-> <<>>]
    ELSE LET rest == OddValues2(phrase, i + 1) IN
         IF (i - 1) % 2 = 1
         THEN IF ~phrase[i].isDict THEN [raised |-> TRUE, list |-> <<>>]
              ELSE [raised |-> rest.raised, list |-> <<phrase[i].value>> \o rest.list]
         ELSE rest

RECURSIVE FoldDefault2(_, _, _)
FoldDefault2(items, i, acc) ==
    IF i > Len(items) THEN acc
    ELSE FoldDefault2(items, i + 1,
             MapPut(acc, items[i].key,
                    IF items[i].kind = "dict"
                    THEN (IF items[i].hasAnswer THEN items[i].answer ELSE PyNone)
                    ELSE PyBool(FALSE)))

\* The body of the try block for one question (a dict), as [raised, answer]
Branch2(q) ==
    LET opts  == IF q.opts.shape = "absent" THEN EmptyDict ELSE q.opts
        qtype == IF q.qtype.t = "str" THEN q.qtype.v ELSE "<not a string>"
        ok(a) == [raised |-> FALSE, answer |-> a]
        exc   == [raised |-> TRUE, answer |-> AnsNull]
    IN
    IF qtype = "order-sentences"
    THEN IF opts.shape = "dict" /\ HasKey(opts, "sentences")
            /\ OptTruthy(AtKey(opts, "sentences"))
         THEN LET l == AtKey(opts, "sentences") IN
              IF l.kind = "list" /\ \A i \in 1..Len(l.list) : l.list[i].isDict
              THEN ok(ValueOf(l))
              ELSE exc
         ELSE ok(AnsNull)
    ELSE IF qtype = "fill-words"
    THEN IF opts.shape = "list" THEN exc
         ELSE IF HasKey(opts, "phrase") /\ OptTruthy(AtKey(opts, "phrase"))
              THEN IF AtKey(opts, "phrase").kind # "list" THEN exc
                   ELSE LET r == OddValues2(AtKey(opts, "phrase").list, 1)
                        IN IF r.raised THEN exc ELSE ok(AnsList(r.list))
              ELSE ok(AnsList(<<>>))
    ELSE IF qtype \in TextTypes2
    THEN IF q.comment.t \in {"none", "str"}
         THEN ok(AnsMap(<<[k |-> "0", v |-> PyStr(remove_html_tags(PyOr(q.comment, PyStr("")).v))]>>))
         ELSE IF Truthy(q.comment) THEN exc
              ELSE ok(AnsMap(<<[k |-> "0", v |-> PyStr("")]>>))
    ELSE IF qtype = "fill-letters"
    THEN IF opts.shape = "dict" /\ HasKey(opts, "answer")
         THEN ok(ValueOf(AtKey(opts, "answer")))
         ELSE ok(AnsNull)
    ELSE IF qtype = "cloud"
    THEN IF opts.shape = "list" THEN exc
         ELSE IF HasKey(opts, "ids") /\ OptTruthy(AtKey(opts, "ids"))
              THEN ok(ValueOf(AtKey(opts, "ids")))
              ELSE ok(AnsNull)
    ELSE IF qtype \in MultipleChoiceTypes2
    THEN IF opts.shape = "list"
         THEN IF \E i \in 1..Len(opts.items) : opts.items[i].kind # "dict"
              THEN exc
              ELSE LET C == {i \in 1..Len(opts.items) : Truthy(opts.items[i].correct)}
                   IN IF C # {}
                      THEN ok(AnsMap(<<[k |-> PyToStr(opts.items[FirstIdx(C)].id),
                                        v |-> PyBool(TRUE)]>>))
                      ELSE IF Len(opts.items) > 0
                           THEN ok(AnsMap(<<[k |-> PyToStr(opts.items[1].id),
                                             v |-> PyBool(TRUE)]>>))
                           ELSE ok(AnsMap(<<>>))
         ELSE ok(AnsMap(<<>>))
    ELSE IF opts.shape = "dict"
         THEN ok(AnsMap(FoldDefault2(opts.items, 1, <<>>)))
         ELSE ok(AnsMap(<<>>))

\* One iteration of the loop; st is [answers, raised]
Question2(q, st) ==
    IF ~q.isDict
    THEN [st EXCEPT !.raised = TRUE]              \* q.get outside the try block
    ELSE LET b == Branch2(q)
         IN [st EXCEPT !.answers =
                PutEntry(@, PyToStr(q.id),
                         Entry(q.id, q.qtype,
                               IF b.raised THEN AnsMap(<<>>) ELSE b.answer))]

RECURSIVE Loop2(_, _, _)
Loop2(qs, i, st) ==
    IF i > Len(qs) \/ st.raised THEN st
    ELSE Loop2(qs, i + 1, Question2(qs[i], st))

transform_json_for_submission_2(task_json) ==
    IF ~task_json.present \/ task_json.wrap \/ ~task_json.hasQ
    THEN [raised |-> TRUE, err |-> "Estrutura invalida de tarefa", answers |-> <<>>]
    ELSE LET st == Loop2(task_json.qs, 1, [answers |-> <<>>, raised |-> FALSE])
         IN [raised |-> st.raised,
             err |-> IF st.raised THEN "AttributeError: object has no attribute 'get'" ELSE "",
             answers |-> st.answers]

(***************************************************************************)
(* The name transform_json_for_submission is defined twice at module       *)
(* level (lines 211 and 855); a call made while a request is served finds  *)
(* the later definition, which takes task_json only.                       *)
(***************************************************************************)
BoundTransformFirst == 1
BoundTransform == 2

(***************************************************************************)
(* MockMode (canned data).                                                 *)
(***************************************************************************)
MockQuestion ==
    [isDict |-> TRUE, id |-> PyInt("1"), qtype |-> PyStr("multiple_choice"),
     comment |-> PyNone, answer |-> PyNone,
     opts |-> [shape |-> "list",
               items |-> << [key |-> "", kind |-> "dict", id |-> PyStr("A"),
                             correct |-> PyBool(TRUE), hasAnswer |-> FALSE,
                             answer |-> PyNone, list |-> <<>>],
                            [key |-> "", kind |-> "dict", id |-> PyStr("B"),
                             correct |-> PyNone, hasAnswer |-> FALSE,
                             answer |-> PyNone, list |-> <<>>] >>]]

\* MOCK.task_details(token, task_id)
MockTaskDetails == [present |-> TRUE, wrap |-> FALSE, hasQ |-> TRUE, qs |-> <<MockQuestion>>]

\* MOCK.submit_task(token, task_id, payload)
MockSubmitBody == "mock:status=ok,submitted=True"

(***************************************************************************)
(* One run of the task processor.                                          *)
(*   pc        "start" | "fetch" | "transform" | "pace" | "submit" |       *)
(*             "returned" (an outcome was returned) | "raised" (an         *)
(*             exception left the function)                                *)
(*   task_id   the local variable task_id                                  *)
(*   details, payload   the locals details and payload_final               *)
(*   sent      the payload handed to the submit call                       *)
(*   answer    what the submit call returned                               *)
(*   fetchCalls, submitCalls   how often each remote operation was issued  *)
(*   simulated, slept   the drawn delay and the argument of time.sleep     *)
(*   log       the steps performed, in order                               *)
(*   result    the returned dict: success, task_id, error (the key is      *)
(*             "message" in process_one_task), response ("result" there),  *)
(*             end (None where the dict has no such key)                   *)
(***************************************************************************)
\* now_iso(): the time stamp stored at the end of a call
NowIso == PyStr("now")

NoPayload  == [present |-> FALSE, answers |-> <<>>, final |-> FALSE, status |-> ""]
NoResponse == [present |-> FALSE, body |-> ""]

NewRun ==
    [pc |-> "start", task_id |-> PyNone, details |-> NoDetails,
     payload |-> NoPayload, sent |-> NoPayload, answer |-> NoResponse,
     fetchCalls |-> 0, submitCalls |-> 0, simulated |-> -1, slept |-> -1,
     log |-> <<>>,
     result |-> [success |-> FALSE, task_id |-> PyNone, error |-> PyNone,
                 response |-> NoResponse, end |-> PyNone]]

\* FailFull without the finally block
FailFullNoFinally(r, err) ==
    [r EXCEPT !.pc = "returned", !.log = Append(@, "Failed"),
              !.result.error = PyStr(err)]

\* The except / finally blocks of process_one_task_full: the error string
\* and the end time are stored and the result returned
FailFull(r, err) ==
    [r EXCEPT !.pc = "returned", !.log = Append(@, "Failed"),
              !.result.error = PyStr(err), !.result.end = NowIso]

\* The except blocks of process_one_task, reached with task_id assigned
FailLegacy(r, err) ==
    [r EXCEPT !.pc = "returned", !.log = Append(@, "Failed"),
              !.result = [success |-> FALSE, task_id |-> r.task_id,
                          error |-> PyStr(err), response |-> NoResponse,
                          end |-> PyNone]]

Fail(v, r, err) == IF v = "full" THEN FailFull(r, err) ELSE FailLegacy(r, err)

\* StartFull without the check of the identifier
StartFullNoCheck(r, t) ==
    IF ~t.isDict
    THEN FailFull(r, "AttributeError: object has no attribute 'get'")
    ELSE LET tid == PyOr(PyOr(t.id, t.task_id), t.uid)
         IN [r EXCEPT !.task_id = tid, !.result.task_id = tid,
                      !.log = Append(@, "Started"), !.pc = "fetch"]

\* Started: the identifier of the assignment
StartFull(r, t) ==
    IF ~t.isDict
    THEN FailFull(r, "AttributeError: object has no attribute 'get'")
    ELSE LET tid == PyOr(PyOr(t.id, t.task_id), t.uid)
             r1  == [r EXCEPT !.task_id = tid, !.result.task_id = tid,
                              !.log = Append(@, "Started")]
         IN IF ~Truthy(tid) THEN FailFull(r1, "task sem id")
            ELSE [r1 EXCEPT !.pc = "fetch"]

StartLegacy(r, t) ==
    IF ~t.isDict
    THEN \* task_obj.get raises; the handler reads the unassigned task_id
         [r EXCEPT !.pc = "raised", !.log = Append(@, "Raised")]
    ELSE LET r1 == [r EXCEPT !.task_id = t.id, !.log = Append(@, "Started")]
         IN IF ~Truthy(t.id)
            THEN [r1 EXCEPT !.pc = "returned", !.log = Append(@, "Failed"),
                            !.result = [success |-> FALSE, task_id |-> PyNone,
                                        error |-> PyStr("task sem id"),
                                        response |-> NoResponse, end |-> PyNone]]
            ELSE [r1 EXCEPT !.pc = "fetch"]

StartStep(v, r, t) == IF v = "full" THEN StartFull(r, t) ELSE StartLegacy(r, t)

\* FetchStep that logs a failed request and goes on with empty details
FetchStepSwallow(v, m, r, resp) ==
    LET r1 == [r EXCEPT !.fetchCalls = @ + 1] IN
    IF ~m /\ resp.kind # "ok"
    THEN [r1 EXCEPT !.pc = "transform", !.log = Append(@, "Failed")]
    ELSE [r1 EXCEPT !.details = IF m THEN MockTaskDetails ELSE resp.details,
                    !.pc = "transform", !.log = Append(@, "DetailsFetched")]

\* DetailsFetched: fetch_task_details / the GET of process_one_task.
\* resp is the answer of the remote service: [kind, details, body]
FetchStep(v, m, r, resp) ==
    LET r1 == [r EXCEPT !.fetchCalls = @ + 1] IN
    IF m THEN [r1 EXCEPT !.details = MockTaskDetails, !.pc = "transform",
                         !.log = Append(@, "DetailsFetched")]
    ELSE IF resp.kind = "http_error"
         THEN Fail(v, r1, IF v = "full" THEN "HTTPError: 500 Server Error"
                          ELSE "HTTP error: 500 Server Error")
    ELSE IF resp.kind = "error"
         THEN Fail(v, r1, "ConnectionError: request failed")
    ELSE [r1 EXCEPT !.details = IF v = "full" /\ resp.details.wrap
                                THEN [resp.details EXCEPT !.wrap = FALSE]
                                ELSE resp.details,
                    !.pc = "transform", !.log = Append(@, "DetailsFetched")]

\* FinalPayload with the status taken from `is_draft is True`
FinalPayloadIdentity(answers, draft) ==
    [present |-> TRUE, answers |-> answers,
     final |-> ~Truthy(draft),
     status |-> IF draft = PyBool(TRUE) THEN "draft" ELSE "submitted"]

\* Transformed: the answers and payload_final
FinalPayload(answers, draft) ==
    [present |-> TRUE, answers |-> answers,
     final |-> ~Truthy(draft),
     status |-> IF Truthy(draft) THEN "draft" ELSE "submitted"]

TransformStep(v, r, t, draft, rnd) ==
    LET res == IF v = "full"
               THEN IF BoundTransform = 1
                    THEN transform_json_for_submission_1(r.details, t.answers, rnd)
                    ELSE [raised |-> TRUE, answers |-> <<>>,
                          err |-> "transform_json_for_submission() got an unexpected keyword argument 'answers_in'"]
               ELSE IF BoundTransform = 1
                    THEN transform_json_for_submission_1(r.details, NoAnswersIn, rnd)
                    ELSE transform_json_for_submission_2(r.details)
    IN IF res.raised THEN Fail(v, r, res.err)
       ELSE [r EXCEPT !.payload = FinalPayload(res.answers, draft),
                      !.pc = "pace", !.log = Append(@, "Transformed")]

\* Pacing: the range the simulated delay is drawn from, in seconds.
\* tmin, tmax are [num, n]: num = int() accepts the value, n its value
\* SecMin without the conversion of minutes to seconds
SecMinNoConversion(v, tmin) == Max(1, tmin.n)

SecMin(v, tmin)       == Max(1, tmin.n) * 60
SecMax(v, tmin, tmax) == IF v = "full" THEN Max(SecMin(v, tmin), tmax.n) * 60
                         ELSE Max(1, tmax.n) * 60
DelayRange(v, tmin, tmax) == SecMin(v, tmin) .. SecMax(v, tmin, tmax)

\* the values random.randint may return (0 stands for "not called / raised")
DelayChoices(v, tmin, tmax) ==
    IF ~tmin.num \/ ~tmax.num \/ DelayRange(v, tmin, tmax) = {}
    THEN {0} ELSE DelayRange(v, tmin, tmax)

\* PaceStep that sleeps the whole simulated delay
PaceStepUncapped(v, r, tmin, tmax, d) ==
    IF ~tmin.num \/ ~tmax.num
    THEN Fail(v, r, "invalid literal for int() with base 10")
    ELSE IF DelayRange(v, tmin, tmax) = {}
         THEN Fail(v, r, "empty range for randrange()")
         ELSE [r EXCEPT !.simulated = d, !.slept = d,
                        !.pc = "submit", !.log = Append(@, "Paced")]

\* d is the value random.randint returns
PaceStep(v, r, tmin, tmax, d) ==
    IF ~tmin.num \/ ~tmax.num
    THEN Fail(v, r, "invalid literal for int() with base 10")
    ELSE IF DelayRange(v, tmin, tmax) = {}
         THEN Fail(v, r, "empty range for randrange()")
         ELSE [r EXCEPT !.simulated = d, !.slept = Min(d, SleepCap),
                        !.pc = "submit", !.log = Append(@, "Paced")]

\* SubmitStep that sends the payload again after an HTTP error
SubmitStepRetry(v, m, r, resp) ==
    LET r1 == [r EXCEPT !.submitCalls = @ + 1, !.sent = r.payload] IN
    IF ~m /\ resp.kind = "http_error"
    THEN r1
    ELSE IF ~m /\ resp.kind = "error"
    THEN Fail(v, r1, "ConnectionError: request failed")
    ELSE [r1 EXCEPT !.pc = "returned", !.log = Append(@, "Submitted"),
                    !.answer = [present |-> TRUE,
                                body |-> IF m THEN MockSubmitBody ELSE resp.body],
                    !.result = [success |-> TRUE, task_id |-> r.task_id,
                                error |-> PyNone,
                                response |-> [present |-> TRUE,
                                              body |-> IF m THEN MockSubmitBody
                                                       ELSE resp.body],
                                end |-> IF v = "full" THEN NowIso ELSE PyNone]]

\* Submitted: submit_task_answer / the POST of process_one_task
SubmitStep(v, m, r, resp) ==
    LET r1 == [r EXCEPT !.submitCalls = @ + 1, !.sent = r.payload] IN
    IF ~m /\ resp.kind = "http_error"
    THEN Fail(v, r1, IF v = "full" THEN "HTTPError: 500 Server Error"
                     ELSE "HTTP error: 500 Server Error")
    ELSE IF ~m /\ resp.kind = "error"
    THEN Fail(v, r1, "ConnectionError: request failed")
    ELSE [r1 EXCEPT !.pc = "returned", !.log = Append(@, "Submitted"),
                    !.answer = [present |-> TRUE,
                                body |-> IF m THEN MockSubmitBody ELSE resp.body],
                    !.result = [success |-> TRUE, task_id |-> r.task_id,
                                error |-> PyNone,
                                response |-> [present |-> TRUE,
                                              body |-> IF m THEN MockSubmitBody
                                                       ELSE resp.body],
                                end |-> IF v = "full" THEN NowIso ELSE PyNone]]

(***************************************************************************)
(* Inputs of the model.                                                    *)
(***************************************************************************)
DictOpt(k, id, correct) ==
    [key |-> k, kind |-> "dict", id |-> id, correct |-> correct,
     hasAnswer |-> FALSE, answer |-> PyNone, list |-> <<>>]
ScalarOpt(k, val) ==
    [key |-> k, kind |-> "scalar", id |-> PyNone, correct |-> PyNone,
     hasAnswer |-> FALSE, answer |-> val, list |-> <<>>]
ListOpt(k, l) ==
    [key |-> k, kind |-> "list", id |-> PyNone, correct |-> PyNone,
     hasAnswer |-> FALSE, answer |-> PyNone, list |-> l]
DictItem(val) == [isDict |-> TRUE,  value |-> val]
RawItem(val)  == [isDict |-> FALSE, value |-> val]

OptsList   == [shape |-> "list",
               items |-> <<DictOpt("", PyStr("A"), PyNone), DictOpt("", PyNone, PyBool(TRUE))>>]
OptsBad    == [shape |-> "list",
               items |-> <<ScalarOpt("", PyStr("x")), DictOpt("", PyStr("B"), PyNone)>>]
OptsPhrase == [shape |-> "dict",
               items |-> <<ListOpt("phrase", <<RawItem(PyStr("a")), DictItem(PyStr("b")),
                                               RawItem(PyStr("c"))>>)>>]
OptsSet    == {NoOpts, OptsList, OptsBad, OptsPhrase}

QIds   == {PyInt("1"), PyStr("1"), PyNone}
QTypes == {PyStr("multiple_choice"), PyStr("fill-words"), PyStr("matrix"), PyInt("5")}

NonDictQuestion == [isDict |-> FALSE, id |-> PyNone, qtype |-> PyNone, opts |-> NoOpts,
                    comment |-> PyNone, answer |-> PyNone]
Questions == {NonDictQuestion} \cup
             [isDict : {TRUE}, id : QIds, qtype : QTypes, opts : OptsSet,
              comment : {PyNone}, answer : {PyNone}]

SeqsUpTo(S, n) == UNION {[1..k -> S] : k \in 0..n}

RandKeys == {"100000", "999999"}
Rnds     == [1..MaxOptions -> RandKeys]

ProvidedAnswers == [isDict |-> TRUE,
                    entries |-> <<[k |-> "1", isDict |-> TRUE, hasAnswer |-> TRUE,
                                   answer |-> PyStr("given")]>>]

(***************************************************************************)
(* Questions of the synthesizer specification: one question, every type    *)
(* tag of the dispatch with its spellings, and options of every shape.     *)
(***************************************************************************)
AnswerOpt(k, id, ans) ==
    [key |-> k, kind |-> "dict", id |-> id, correct |-> PyNone,
     hasAnswer |-> TRUE, answer |-> ans, list |-> <<>>]

\* the keys of a keyed-map options object, in iteration order
OptKeys == <<"a", "b", "c", "d">>

\* what an option may be: a structured option (with or without correct,
\* with or without id, with an answer field) or a raw scalar
OptValues == {DictOpt("", PyStr("A"), PyNone), DictOpt("", PyStr("B"), PyBool(TRUE)),
              AnswerOpt("", PyNone, PyStr("yes")), ScalarOpt("", PyStr("x")),
              ScalarOpt("", PyStr(""))}

\* options as a list / as a keyed map of 1..MaxOptions options
SynthListOpts ==
    {[shape |-> "list", items |-> l] : l \in SeqsUpTo(OptValues, MaxOptions) \ {<<>>}}
SynthDictOpts ==
    {[shape |-> "dict", items |-> [i \in 1..Len(l) |-> [l[i] EXCEPT !.key = OptKeys[i]]]] :
         l \in SeqsUpTo(OptValues, MaxOptions) \ {<<>>}}

\* {"phrase": [...]} with 0..MaxPhrase items, raw strings or {"value": ...}
PhraseItems == {RawItem(PyStr("a")), DictItem(PyStr("b"))}
SynthPhraseOpts ==
    {[shape |-> "dict", items |-> <<ListOpt("phrase", l)>>] :
         l \in SeqsUpTo(PhraseItems, MaxPhrase)}

\* {"ids": [7, 9]}, {"ids": []}, {"ids": "7"}
SynthIdsOpts ==
    {[shape |-> "dict", items |-> <<ListOpt("ids", <<RawItem(PyInt("7")), RawItem(PyInt("9"))>>)>>],
     [shape |-> "dict", items |-> <<ListOpt("ids", <<>>)>>],
     [shape |-> "dict", items |-> <<ScalarOpt("ids", PyStr("7"))>>]}

\* {"sentences": [{"value": "s1"}, {"value": "s2"}]}, {"answer": "abc"}
SynthOtherOpts ==
    {[shape |-> "dict",
      items |-> <<ListOpt("sentences", <<DictItem(PyStr("s1")), DictItem(PyStr("s2"))>>)>>],
     [shape |-> "dict", items |-> <<ScalarOpt("answer", PyStr("abc"))>>]}

SynthOpts == {NoOpts} \cup SynthListOpts \cup SynthDictOpts \cup SynthPhraseOpts
             \cup SynthIdsOpts \cup SynthOtherOpts

\* the spellings of a type tag a fetched question may carry
SynthTypes == {"order-sentences", "order_sentences", "orderSentences",
               "fill-words", "fill_words", "fillWords", "Fill-Words",
               "text_ai", "text-ai", "textAi", "text", "essay", "long_text", "long-text",
               "fill-letters", "fill_letters", "fillLetters",
               "cloud", "Cloud",
               "multiple_choice", "multiple-choice", "multipleChoice",
               "single_choice", "single-choice", "singleChoice",
               "matrix"}

SynthQuestions ==
    [isDict : {TRUE}, id : {PyInt("1")}, qtype : {PyStr(t) : t \in SynthTypes},
     opts : SynthOpts, comment : {PyNone, PyStr("<b>hi</b> there")}, answer : {PyNone}]

\* assignments handed to the task processor
NonDictTask == [isDict |-> FALSE, id |-> PyNone, task_id |-> PyNone, uid |-> PyNone,
                answers |-> NoAnswersIn]
GoodTask    == [isDict |-> TRUE, id |-> PyInt("111"), task_id |-> PyNone, uid |-> PyNone,
                answers |-> NoAnswersIn]
TaskObjs    == {NonDictTask} \cup
               [isDict : {TRUE}, id : {PyNone, PyInt("0"), PyInt("111")},
                task_id : {PyNone, PyInt("222")}, uid : {PyNone, PyInt("333")},
                answers : {NoAnswersIn, ProvidedAnswers}]

Pacings    == {[num |-> FALSE, n |-> 0]} \cup [num : {TRUE}, n : 0..MaxMinutes]
DraftFlags == {PyBool(TRUE), PyBool(FALSE), PyStr("false"), PyInt("0")}

\* what the remote service may answer
GoodQuestion  == [isDict |-> TRUE, id |-> PyInt("1"), qtype |-> PyStr("multiple_choice"),
                  opts |-> OptsList, comment |-> PyNone, answer |-> PyNone]
RemoteDetails ==
    { [present |-> TRUE,  wrap |-> FALSE, hasQ |-> TRUE,  qs |-> <<GoodQuestion>>],
      [present |-> TRUE,  wrap |-> TRUE,  hasQ |-> TRUE,  qs |-> <<GoodQuestion>>],
      [present |-> TRUE,  wrap |-> FALSE, hasQ |-> FALSE, qs |-> <<>>],
      [present |-> FALSE, wrap |-> FALSE, hasQ |-> FALSE, qs |-> <<>>],
      [present |-> TRUE,  wrap |-> FALSE, hasQ |-> TRUE,
       qs |-> <<GoodQuestion, NonDictQuestion>>] }
FetchResponses ==
    {[kind |-> "http_error", details |-> NoDetails, body |-> ""],
     [kind |-> "error", details |-> NoDetails, body |-> ""]}
    \cup {[kind |-> "ok", details |-> d, body |-> ""] : d \in RemoteDetails}
SubmitResponses ==
    {[kind |-> "http_error", details |-> NoDetails, body |-> ""],
     [kind |-> "error", details |-> NoDetails, body |-> ""],
     [kind |-> "ok", details |-> NoDetails, body |-> "remote-1"],
     [kind |-> "ok", details |-> NoDetails, body |-> "remote-2"]}

Variants == {"full", "legacy"}

(***************************************************************************)
(* Idle values of the parts a specification does not use.                  *)
(***************************************************************************)
NoMetrics == [total_logins |-> 0, total_fetch_rooms |-> 0, total_fetch_tasks |-> 0,
              total_submissions |-> 0, total_submission_errors |-> 0,
              processed_tasks_history |-> <<>>]
IdleTask  == /\ task_obj = GoodTask
             /\ run = [NewRun EXCEPT !.pc = "idle"]
IdleBatch == /\ tasks = <<>>
             /\ fut = <<>>
             /\ outs = <<>>
             /\ results = <<>>
             /\ returned = FALSE
             /\ METRICS = NoMetrics
\* the result slot of a call that has not been made
NotCalled == [def |-> 0, raised |-> FALSE, answers |-> <<>>]
IdleServer == /\ thr = <<>>
              /\ pushes = 0
IdleTransform == /\ tj_details = NoDetails
                 /\ tj_answers_in = NoAnswersIn
                 /\ tj_out = NotCalled
                 /\ tj_again = NotCalled

(***************************************************************************)
(* Spec: one call of process_one_task_full ("full") or process_one_task    *)
(* ("legacy"), step by step.                                               *)
(***************************************************************************)
Init ==
    /\ variant \in Variants
    /\ mock \in BOOLEAN
    /\ task_obj \in TaskObjs
    /\ time_min \in Pacings
    /\ time_max \in Pacings
    /\ is_draft \in DraftFlags
    /\ run = NewRun
    /\ IdleBatch
    /\ IdleTransform
    /\ IdleServer

Start ==
    /\ run.pc = "start"
    /\ run' = StartStep(variant, run, task_obj)
    /\ UNCHANGED <<cfgVars, srvVars, task_obj, batchVars, tjVars>>

Fetch ==
    /\ run.pc = "fetch"
    /\ \E resp \in FetchResponses : run' = FetchStep(variant, mock, run, resp)
    /\ UNCHANGED <<cfgVars, srvVars, task_obj, batchVars, tjVars>>

Transform ==
    /\ run.pc = "transform"
    /\ \E rnd \in Rnds : run' = TransformStep(variant, run, task_obj, is_draft, rnd)
    /\ UNCHANGED <<cfgVars, srvVars, task_obj, batchVars, tjVars>>

Pace ==
    /\ run.pc = "pace"
    /\ \E d \in DelayChoices(variant, time_min, time_max) :
          run' = PaceStep(variant, run, time_min, time_max, d)
    /\ UNCHANGED <<cfgVars, srvVars, task_obj, batchVars, tjVars>>

Submit ==
    /\ run.pc = "submit"
    /\ \E resp \in SubmitResponses : run' = SubmitStep(variant, mock, run, resp)
    /\ UNCHANGED <<cfgVars, srvVars, task_obj, batchVars, tjVars>>

Next == Start \/ Fetch \/ Transform \/ Pace \/ Submit

Spec == Init /\ [][Next]_vars

(***************************************************************************)
(* SpecPacing: the pacing block of the two task processors on every pacing *)
(* range, entered from a run whose transform step produced a payload.      *)
(***************************************************************************)
PacingEntry(v) ==
    LET r1 == StartStep(v, NewRun, GoodTask)
        r2 == FetchStep(v, TRUE, r1, [kind |-> "ok", details |-> NoDetails, body |-> ""])
    IN [r2 EXCEPT !.payload = FinalPayload(
                                  transform_json_for_submission_2(r2.details).answers,
                                  PyBool(FALSE)),
                  !.pc = "pace", !.log = Append(@, "Transformed")]

InitPacing ==
    /\ variant \in Variants
    /\ mock = TRUE
    /\ task_obj = GoodTask
    /\ time_min \in Pacings
    /\ time_max \in Pacings
    /\ is_draft = PyBool(FALSE)
    /\ run = PacingEntry(variant)
    /\ IdleBatch
    /\ IdleTransform
    /\ IdleServer

NextPacing == Pace

SpecPacing == InitPacing /\ [][NextPacing]_vars

(***************************************************************************)
(* SpecSubmit: the pacing and submit blocks of the two task processors,    *)
(* entered from a run whose transform step produced a payload, against the *)
(* remote service or the mock.                                             *)
(***************************************************************************)
InitSubmit ==
    /\ variant \in Variants
    /\ mock \in BOOLEAN
    /\ task_obj = GoodTask
    /\ time_min \in Pacings
    /\ time_max = [num |-> TRUE, n |-> 1]
    /\ is_draft = PyBool(FALSE)
    /\ run = PacingEntry(variant)
    /\ IdleBatch
    /\ IdleTransform
    /\ IdleServer

NextSubmit == Pace \/ Submit

SpecSubmit == InitSubmit /\ [][NextSubmit]_vars

(***************************************************************************)
(* The /complete endpoints: endpoint_complete ("full": runs                *)
(* process_one_task_full and updates METRICS) and complete_route           *)
(* ("legacy": runs process_one_task).                                      *)
(*   tasks     the assignments of the request                              *)
(*   fut[i]    the future of task i: "pending" (queued in the executor),   *)
(*             "running" (a worker thread runs it), "done" (result set),   *)
(*             "raised" (exception set), "collected" (as_completed         *)
(*             yielded it and the loop body ran)                           *)
(*   outs[i]   what the worker's call produced                             *)
(*   results   the list results                                            *)
(*   returned  the endpoint returned its response                          *)
(***************************************************************************)
\* The whole call of the task processor for one assignment: the steps above
\* in sequence, as the set of the runs it may end in (one per answer of the
\* remote service, drawn delay and drawn option keys)
RunsToEnd(v, m, t, tmin, tmax, draft) ==
    LET r1 == StartStep(v, NewRun, t)
        S2 == IF r1.pc = "fetch"
              THEN {FetchStep(v, m, r1, fr) : fr \in FetchResponses} ELSE {r1}
        S3 == UNION { IF r.pc = "transform"
                      THEN {TransformStep(v, r, t, draft, rnd) : rnd \in Rnds}
                      ELSE {r} : r \in S2 }
        S4 == UNION { IF r.pc = "pace"
                      THEN {PaceStep(v, r, tmin, tmax, d) : d \in DelayChoices(v, tmin, tmax)}
                      ELSE {r} : r \in S3 }
    IN UNION { IF r.pc = "submit"
               THEN {SubmitStep(v, m, r, sr) : sr \in SubmitResponses}
               ELSE {r} : r \in S4 }

\* What is kept of a finished call
OutcomeOf(r) == [raised |-> r.pc = "raised", result |-> r.result,
                 fetchCalls |-> r.fetchCalls, submitCalls |-> r.submitCalls,
                 log |-> r.log, details |-> r.details]
NoOutcome == OutcomeOf(NewRun)

\* one worker per task
max_workers_per_task(n) == Max(1, n)

\* max_workers = min(6, max(1, len(tasks)))
max_workers(n) == Min(WorkerBound, Max(1, n))

\* a pool whose threads are not reused: every task ever started holds one
InFlightEver == {i \in DOMAIN fut : fut[i] # "pending"}

\* the tasks a worker thread of the pool is running
InFlight == {i \in DOMAIN fut : fut[i] = "running"}

\* metrics_increment that stores the amount instead of adding it
metrics_increment_store(M, key) == [M EXCEPT ![key] = 1]

\* metrics_increment(key, 1) under METRICS_LOCK
metrics_increment(M, key) == [M EXCEPT ![key] = @ + 1]

\* metrics_push_processed that keeps the first `limit` entries
metrics_push_processed_head(M, res) ==
    LET h == Append(M.processed_tasks_history, res)
    IN [M EXCEPT !.processed_tasks_history =
           IF Len(h) > HistoryLimit
           THEN SubSeq(h, 1, HistoryLimit)
           ELSE h]

\* metrics_push_processed(res) under METRICS_LOCK
metrics_push_processed(M, res) ==
    LET h == Append(M.processed_tasks_history, res)
    IN [M EXCEPT !.processed_tasks_history =
           IF Len(h) > HistoryLimit
           THEN SubSeq(h, Len(h) - HistoryLimit + 1, Len(h))
           ELSE h]

\* the dict appended when f.result() raises
ThreadErrorResult ==
    [success |-> FALSE, task_id |-> PyNone,
     error |-> PyStr("local variable 'task_id' referenced before assignment"),
     response |-> NoResponse, end |-> PyNone]

\* the loop body without the except branch
ResultsAfterNoExcept(res, o) ==
    IF o.raised THEN res ELSE Append(res, o.result)

\* the body of the loop over as_completed(futures) for one finished future
ResultsAfter(res, o) ==
    IF o.raised THEN Append(res, ThreadErrorResult) ELSE Append(res, o.result)

\* the loop left at the first failed outcome
AllCollectedOrFailure ==
    \/ \A i \in DOMAIN fut : fut[i] = "collected"
    \/ \E i \in DOMAIN fut : fut[i] = "collected" /\ ~outs[i].result.success

\* the loop over as_completed(futures) has yielded every future
AllCollected == \A i \in DOMAIN fut : fut[i] = "collected"

\* ex.submit for every task: all futures are queued at once
Submitted(ts) == [i \in 1..Len(ts) |-> "pending"]

BatchTaskObjs == {NonDictTask, GoodTask, [GoodTask EXCEPT !.id = PyNone]}
BatchPacings  == [num : {TRUE}, n : 1..MaxMinutes]

InitBatch ==
    /\ variant \in Variants
    /\ mock \in BOOLEAN
    /\ time_min \in BatchPacings
    /\ time_max = [num |-> TRUE, n |-> 1]
    /\ is_draft \in {PyBool(FALSE), PyBool(TRUE)}
    /\ tasks \in SeqsUpTo(BatchTaskObjs, MaxTasks) \ {<<>>}
    /\ fut = Submitted(tasks)
    /\ outs = [i \in 1..Len(tasks) |-> NoOutcome]
    /\ results = <<>>
    /\ returned = FALSE
    /\ METRICS = NoMetrics
    /\ IdleTask
    /\ IdleTransform
    /\ IdleServer

\* a worker thread of the pool takes the next queued task
WorkerStart(i) ==
    /\ fut[i] = "pending"
    /\ \A j \in 1..(i - 1) : fut[j] # "pending"
    /\ Cardinality(InFlight) < max_workers(Len(tasks))
    /\ fut' = [fut EXCEPT ![i] = "running"]
    /\ UNCHANGED <<cfgVars, srvVars, taskVars, tjVars, tasks, outs, results, returned, METRICS>>

\* the worker's call of the task processor ends
WorkerFinish(i) ==
    /\ fut[i] = "running"
    /\ \E o \in {OutcomeOf(r) : r \in RunsToEnd(variant, mock, tasks[i], time_min,
                                                  time_max, is_draft)} :
          /\ outs' = [outs EXCEPT ![i] = o]
          /\ fut' = [fut EXCEPT ![i] = IF o.raised THEN "raised" ELSE "done"]
    /\ UNCHANGED <<cfgVars, srvVars, taskVars, tjVars, tasks, results, returned, METRICS>>

\* the request thread: one iteration of the loop over as_completed(futures)
Collect(i) ==
    /\ ~returned
    /\ fut[i] \in {"done", "raised"}
    /\ results' = ResultsAfter(results, outs[i])
    /\ fut' = [fut EXCEPT ![i] = "collected"]
    /\ METRICS' = IF variant = "full" /\ ~outs[i].raised
                  THEN metrics_push_processed(
                           metrics_increment(METRICS,
                               IF outs[i].result.success THEN "total_submissions"
                               ELSE "total_submission_errors"),
                           outs[i].result)
                  ELSE METRICS
    /\ UNCHANGED <<cfgVars, srvVars, taskVars, tjVars, tasks, outs, returned>>

\* the loop ended, the executor was shut down, the response is returned
Return ==
    /\ ~returned
    /\ AllCollected
    /\ returned' = TRUE
    /\ UNCHANGED <<cfgVars, srvVars, taskVars, tjVars, tasks, fut, outs, results, METRICS>>

NextBatch ==
    \/ \E i \in DOMAIN fut : WorkerStart(i)
    \/ \E i \in DOMAIN fut : WorkerFinish(i)
    \/ \E i \in DOMAIN fut : Collect(i)
    \/ Return

SpecBatch == InitBatch /\ [][NextBatch]_vars

(***************************************************************************)
(* SpecPool: a /complete request with more tasks than workers, served in   *)
(* mock mode.                                                              *)
(***************************************************************************)
InitPool ==
    /\ variant \in Variants
    /\ mock = TRUE
    /\ time_min = [num |-> TRUE, n |-> 1]
    /\ time_max = [num |-> TRUE, n |-> 1]
    /\ is_draft = PyBool(FALSE)
    /\ tasks \in {[i \in 1..k |-> GoodTask] : k \in 1..PoolTasks}
    /\ fut = Submitted(tasks)
    /\ outs = [i \in 1..Len(tasks) |-> NoOutcome]
    /\ results = <<>>
    /\ returned = FALSE
    /\ METRICS = NoMetrics
    /\ IdleTask
    /\ IdleTransform
    /\ IdleServer

SpecPool == InitPool /\ [][NextBatch]_vars

\* The pool under its scheduling: a free worker thread takes the next queued
\* task, a call of the task processor ends (every remote call has a timeout,
\* the pause is capped), the request thread goes on with its loop.
SpecPoolLive == SpecPool /\ WF_vars(NextBatch)

(***************************************************************************)
(* SpecTransform: the two definitions of transform_json_for_submission     *)
(* applied to a fetched task.                                              *)
(*   tj_out   [def, raised, answers]: def = 0 before the call, else the    *)
(*            definition that ran; raised = an exception left the function *)
(***************************************************************************)
InitTransform ==
    /\ tj_details \in {[present |-> TRUE, wrap |-> FALSE, hasQ |-> TRUE, qs |-> qs] :
                          qs \in SeqsUpTo(Questions, MaxQuestions)}
    /\ tj_answers_in \in {NoAnswersIn, ProvidedAnswers}
    /\ tj_out = NotCalled
    /\ tj_again = NotCalled
    /\ variant = "full"
    /\ mock = FALSE
    /\ time_min = [num |-> TRUE, n |-> 1]
    /\ time_max = [num |-> TRUE, n |-> 1]
    /\ is_draft = PyBool(FALSE)
    /\ IdleTask
    /\ IdleBatch
    /\ IdleServer

ApplyFirst ==
    /\ tj_out.def = 0
    /\ \E rnd \in Rnds :
          LET res == transform_json_for_submission_1(tj_details, tj_answers_in, rnd)
          IN tj_out' = [def |-> 1, raised |-> res.raised, answers |-> res.answers]
    /\ UNCHANGED <<cfgVars, srvVars, taskVars, batchVars, tj_details, tj_answers_in, tj_again>>

ApplySecond ==
    /\ tj_out.def = 0
    /\ LET res == transform_json_for_submission_2(tj_details)
       IN tj_out' = [def |-> 2, raised |-> res.raised, answers |-> res.answers]
    /\ UNCHANGED <<cfgVars, srvVars, taskVars, batchVars, tj_details, tj_answers_in, tj_again>>

\* The same definition called a second time on the same inputs; the calls
\* of random.randint of the second call are independent of the first
ReapplyFirst ==
    /\ tj_out.def = 1
    /\ tj_again.def = 0
    /\ \E rnd \in Rnds :
          LET res == transform_json_for_submission_1(tj_details, tj_answers_in, rnd)
          IN tj_again' = [def |-> 1, raised |-> res.raised, answers |-> res.answers]
    /\ UNCHANGED <<cfgVars, srvVars, taskVars, batchVars, tj_details, tj_answers_in, tj_out>>

ReapplySecond ==
    /\ tj_out.def = 2
    /\ tj_again.def = 0
    /\ LET res == transform_json_for_submission_2(tj_details)
       IN tj_again' = [def |-> 2, raised |-> res.raised, answers |-> res.answers]
    /\ UNCHANGED <<cfgVars, srvVars, taskVars, batchVars, tj_details, tj_answers_in, tj_out>>

NextTransform == ApplyFirst \/ ApplySecond

SpecTransform == InitTransform /\ [][NextTransform]_vars

(***************************************************************************)
(* SpecSynth: the two definitions applied to a task of one question, each  *)
(* called a second time on the same task.                                  *)
(*   tj_again  the result of the second call, shaped like tj_out           *)
(***************************************************************************)
InitSynth ==
    /\ tj_details \in {[present |-> TRUE, wrap |-> FALSE, hasQ |-> TRUE, qs |-> <<q>>] :
                          q \in SynthQuestions}
    /\ tj_answers_in = NoAnswersIn
    /\ tj_out = NotCalled
    /\ tj_again = NotCalled
    /\ variant = "full"
    /\ mock = FALSE
    /\ time_min = [num |-> TRUE, n |-> 1]
    /\ time_max = [num |-> TRUE, n |-> 1]
    /\ is_draft = PyBool(FALSE)
    /\ IdleTask
    /\ IdleBatch
    /\ IdleServer

NextSynth == ApplyFirst \/ ApplySecond \/ ReapplyFirst \/ ReapplySecond

SpecSynth == InitSynth /\ [][NextSynth]_vars

(***************************************************************************)
(* The request handlers.  A request is served by a thread of the server:   *)
(*   thr[i]   [op, body, pc, tmp, incs, j, calls, resp]                    *)
(*            op     "auth" | "tasks" | "process": the route               *)
(*            body   the request body: [kind, ra, password, auth_token];   *)
(*                   kind "none" (no JSON body), "list" (JSON that is not  *)
(*                   an object) or "dict"                                  *)
(*            pc     "start", "read", "write", "rooms", "push", "done", or  *)
(*                   "raised": an exception left the handler               *)
(*            tmp    the counter value read from METRICS before the write  *)
(*            incs   the number of counter increments the thread performed *)
(*            j      what the login call returned: [isDict, token, nick]   *)
(*            calls  the calls made to the remote service ("remote:...")   *)
(*                   and to the mock ("mock:...")                          *)
(*            resp   the response: [status, success, auth_token, message,  *)
(*                   count]; status 0 = no response yet                    *)
(*   pushes   the number of outcomes pushed to the history so far          *)
(* The handler served is endpoint_auth / endpoint_tasks ("full") or auth / *)
(* tasks ("legacy"), by `variant`.                                         *)
(***************************************************************************)
NoReply == [status |-> 0, success |-> FALSE, auth_token |-> PyNone, message |-> "",
            count |-> 0]
NoLogin == [isDict |-> FALSE, token |-> PyNone, nick |-> PyNone]

Reply(st, ok, tok, msg) ==
    [status |-> st, success |-> ok, auth_token |-> tok, message |-> msg, count |-> 0]

NewRequest(op, body) ==
    [op |-> op, body |-> body, pc |-> "start", tmp |-> 0, incs |-> 0, j |-> NoLogin,
     calls |-> <<>>, resp |-> NoReply]

\* the handler returns jsonify(...)
Respond(t, reply) == [t EXCEPT !.pc = "done", !.resp = reply]

\* MOCK.login(ra, senha): ra[-3:] needs a string
MockLogin(ra) == [isDict |-> TRUE, token |-> PyStr("mock-token-" \o ra.v),
                  nick |-> PyStr("Aluno" \o ra.v)]

\* what the remote login may answer: [kind, j]
LoginAnswers ==
    {[kind |-> "http_error", j |-> NoLogin],
     [kind |-> "error", j |-> NoLogin],
     [kind |-> "ok", j |-> [isDict |-> TRUE, token |-> PyStr("tok"), nick |-> PyStr("Ana")]],
     [kind |-> "ok", j |-> [isDict |-> TRUE, token |-> PyNone, nick |-> PyStr("Ana")]],
     [kind |-> "ok", j |-> [isDict |-> FALSE, token |-> PyNone, nick |-> PyNone]]}

\* the end of auth(): success with whatever j.get("auth_token") gives
AuthReplyLegacy(t, j) ==
    IF ~j.isDict
    THEN Respond(t, Reply(500, FALSE, PyNone, "AttributeError: object has no attribute 'get'"))
    ELSE Respond(t, Reply(200, TRUE, j.token, ""))

\* the end of endpoint_auth(): the token is required
AuthReplyFull(t, j) ==
    IF ~j.isDict
    THEN Respond(t, Reply(500, FALSE, PyNone, "AttributeError: object has no attribute 'get'"))
    ELSE IF ~Truthy(j.token)
         THEN Respond(t, Reply(500, FALSE, PyNone, "Login nao retornou token"))
         ELSE Respond(t, Reply(200, TRUE, j.token, ""))

\* AuthStart without the check of ra and password
AuthStartNoCheck(v, m, t, ans) ==
    IF t.body.kind = "none"
    THEN Respond(t, Reply(500, FALSE, PyNone, "400 Bad Request"))
    ELSE IF t.body.kind # "dict"
    THEN Respond(t, Reply(500, FALSE, PyNone, "AttributeError: object has no attribute 'get'"))
    ELSE IF m
    THEN LET t1 == [t EXCEPT !.calls = Append(@, "mock:login")] IN
         IF t.body.ra.t # "str"
         THEN Respond(t1, Reply(500, FALSE, PyNone,
                                IF v = "full" THEN "Falha no login"
                                ELSE "TypeError: object is not subscriptable"))
         ELSE IF v = "full"
              THEN [t1 EXCEPT !.j = MockLogin(t.body.ra), !.pc = "read"]
              ELSE AuthReplyLegacy(t1, MockLogin(t.body.ra))
    ELSE LET t1 == [t EXCEPT !.calls = Append(@, "remote:login")] IN
         IF ans.kind = "http_error"
         THEN Respond(t1, Reply(500, FALSE, PyNone, "Falha no login"))
         ELSE IF ans.kind = "error"
         THEN Respond(t1, Reply(500, FALSE, PyNone,
                                IF v = "full" THEN "Falha no login"
                                ELSE "ConnectionError: request failed"))
         ELSE IF v = "full"
              THEN [t1 EXCEPT !.j = ans.j, !.pc = "read"]
              ELSE AuthReplyLegacy(t1, ans.j)

\* The handler up to the return of the login call: request.get_json,
\* the check of ra and password, login_edusp / MOCK.login / requests.post.
\* ans is the answer of the remote service
AuthStart(v, m, t, ans) ==
    IF t.body.kind = "none"
    THEN Respond(t, Reply(500, FALSE, PyNone, "400 Bad Request"))
    ELSE IF t.body.kind # "dict"
    THEN Respond(t, Reply(500, FALSE, PyNone, "AttributeError: object has no attribute 'get'"))
    ELSE IF ~Truthy(t.body.ra) \/ ~Truthy(t.body.password)
    THEN Respond(t, Reply(400, FALSE, PyNone, "RA e senha obrigatorios"))
    ELSE IF m
    THEN LET t1 == [t EXCEPT !.calls = Append(@, "mock:login")] IN
         IF t.body.ra.t # "str"
         THEN Respond(t1, Reply(500, FALSE, PyNone,
                                IF v = "full" THEN "Falha no login"
                                ELSE "TypeError: object is not subscriptable"))
         ELSE IF v = "full"
              THEN [t1 EXCEPT !.j = MockLogin(t.body.ra), !.pc = "read"]
              ELSE AuthReplyLegacy(t1, MockLogin(t.body.ra))
    ELSE LET t1 == [t EXCEPT !.calls = Append(@, "remote:login")] IN
         IF ans.kind = "http_error"
         THEN Respond(t1, Reply(500, FALSE, PyNone, "Falha no login"))
         ELSE IF ans.kind = "error"
         THEN Respond(t1, Reply(500, FALSE, PyNone,
                                IF v = "full" THEN "Falha no login"
                                ELSE "ConnectionError: request failed"))
         ELSE IF v = "full"
              THEN [t1 EXCEPT !.j = ans.j, !.pc = "read"]
              ELSE AuthReplyLegacy(t1, ans.j)

\* request bodies of /auth
AuthBody(kind, ra, password) ==
    [kind |-> kind, ra |-> ra, password |-> password, auth_token |-> PyNone]
GoodAuthBody == AuthBody("dict", PyStr("123456"), PyStr("pw"))

\* the counter a handler updates without METRICS_LOCK
CounterOf(t) == IF t.op = "auth" THEN "total_logins" ELSE "total_fetch_rooms"

\* the handler starts serving the request
AuthBegin(i) ==
    /\ thr[i].op = "auth"
    /\ thr[i].pc = "start"
    /\ \E ans \in LoginAnswers :
          thr' = [thr EXCEPT ![i] = AuthStart(variant, mock, thr[i], ans)]
    /\ UNCHANGED <<cfgVars, taskVars, batchVars, tjVars, pushes>>

\* METRICS["total_logins"] = METRICS.get("total_logins", 0) + 1, first half:
\* the value is read
CounterRead(i) ==
    /\ thr[i].pc = "read"
    /\ thr' = [thr EXCEPT ![i].tmp = METRICS[CounterOf(thr[i])], ![i].pc = "write"]
    /\ UNCHANGED <<cfgVars, taskVars, batchVars, tjVars, pushes>>

\* second half: the sum is stored; endpoint_auth then builds its response,
\* endpoint_tasks goes on to fetch the rooms
CounterWrite(i) ==
    /\ thr[i].pc = "write"
    /\ METRICS' = [METRICS EXCEPT ![CounterOf(thr[i])] = thr[i].tmp + 1]
    /\ thr' = [thr EXCEPT ![i] =
                  IF thr[i].op = "auth"
                  THEN AuthReplyFull([thr[i] EXCEPT !.incs = @ + 1], thr[i].j)
                  ELSE [thr[i] EXCEPT !.incs = @ + 1, !.pc = "rooms"]]
    /\ UNCHANGED <<cfgVars, taskVars, tjVars, tasks, fut, outs, results, returned, pushes>>

(***************************************************************************)
(* SpecLogins: up to MaxThreads /auth requests served concurrently by      *)
(* endpoint_auth.                                                          *)
(***************************************************************************)
InitLogins ==
    /\ variant = "full"
    /\ mock \in BOOLEAN
    /\ time_min = [num |-> TRUE, n |-> 1]
    /\ time_max = [num |-> TRUE, n |-> 1]
    /\ is_draft = PyBool(FALSE)
    /\ thr \in {[i \in 1..n |-> NewRequest("auth", GoodAuthBody)] : n \in 1..MaxThreads}
    /\ pushes = 0
    /\ IdleTask
    /\ IdleBatch
    /\ tj_details = NoDetails
    /\ tj_answers_in = NoAnswersIn
    /\ tj_out = NotCalled
    /\ tj_again = NotCalled

NextLogins ==
    \/ \E i \in DOMAIN thr : AuthBegin(i)
    \/ \E i \in DOMAIN thr : CounterRead(i)
    \/ \E i \in DOMAIN thr : CounterWrite(i)

SpecLogins == InitLogins /\ [][NextLogins]_vars

(***************************************************************************)
(* SpecAuth: one /auth request with any body, served by endpoint_auth or   *)
(* by auth, against the remote service or the mock.                        *)
(***************************************************************************)
AuthBodies ==
    {AuthBody("none", PyNone, PyNone), AuthBody("list", PyNone, PyNone)} \cup
    {AuthBody("dict", ra, pw) :
        ra \in {PyNone, PyStr(""), PyStr("123456"), PyInt("123456")},
        pw \in {PyNone, PyStr(""), PyStr("pw")}}

InitAuth ==
    /\ variant \in Variants
    /\ mock \in BOOLEAN
    /\ time_min = [num |-> TRUE, n |-> 1]
    /\ time_max = [num |-> TRUE, n |-> 1]
    /\ is_draft = PyBool(FALSE)
    /\ thr \in {<<NewRequest("auth", b)>> : b \in AuthBodies}
    /\ pushes = 0
    /\ IdleTask
    /\ IdleBatch
    /\ tj_details = NoDetails
    /\ tj_answers_in = NoAnswersIn
    /\ tj_out = NotCalled
    /\ tj_again = NotCalled

SpecAuth == InitAuth /\ [][NextLogins]_vars

(***************************************************************************)
(* The /tasks handlers: endpoint_tasks ("full") and tasks ("legacy").      *)
(***************************************************************************)
\* request.get_json and the check of the token.  endpoint_tasks does both
\* inside its try block; tasks() reads the body before its try block
TasksStart(v, t) ==
    IF t.body.kind # "dict"
    THEN IF v = "full"
         THEN Respond(t, Reply(500, FALSE, PyNone,
                               IF t.body.kind = "none" THEN "400 Bad Request"
                               ELSE "AttributeError: object has no attribute 'get'"))
         ELSE [t EXCEPT !.pc = "raised"]
    ELSE IF ~Truthy(t.body.auth_token)
    THEN Respond(t, Reply(400, FALSE, PyNone, "Token e obrigatorio"))
    ELSE [t EXCEPT !.pc = IF v = "full" THEN "read" ELSE "rooms"]

\* MOCK.fetch_rooms: two rooms with id and name
MockRooms == [kind |-> "ok", isDict |-> TRUE, ids |-> <<"123", "456">>, named |-> TRUE]

\* what the remote service may answer to the rooms request: a failure, a
\* JSON value that is no object, or an object with the rooms (their ids, and
\* whether they carry a name)
RoomsAnswers ==
    {[kind |-> "http_error", isDict |-> FALSE, ids |-> <<>>, named |-> FALSE],
     [kind |-> "ok", isDict |-> FALSE, ids |-> <<>>, named |-> FALSE]}
    \cup {[kind |-> "ok", isDict |-> TRUE, ids |-> l, named |-> n] :
              l \in {<<>>, <<"123">>, <<"123", "456">>}, n \in BOOLEAN}

\* what the remote service may answer to a /tms/task/todo request: the ids
\* of the tasks, or a failure
TodoAnswers ==
    {[kind |-> "error", ids |-> <<>>],
     [kind |-> "ok", ids |-> <<>>],
     [kind |-> "ok", ids |-> <<"111">>],
     [kind |-> "ok", ids |-> <<"111", "222">>]}

\* MOCK.fetch_tasks: two tasks
MockTodo == [kind |-> "ok", ids |-> <<"111", "222">>]

\* n calls appended to the calls of the thread
WithCalls(t, n, c) == [t EXCEPT !.calls = @ \o [k \in 1..n |-> c]]

\* endpoint_tasks from fetch_rooms_api on: the targets are the ids and the
\* names of the rooms, every target is fetched by fetch_tasks_for_target
\* (which has no mock branch), the tasks are deduplicated by id
TasksFetchFull(m, t, rooms, todo) ==
    LET r  == IF m THEN MockRooms ELSE rooms
        t1 == WithCalls(t, 1, IF m THEN "mock:rooms" ELSE "remote:rooms")
        targets == IF r.isDict THEN Len(r.ids) * (IF r.named THEN 2 ELSE 1) ELSE 0
        t2 == WithCalls(t1, targets, "remote:tasks")
    IN IF r.kind # "ok"
       THEN Respond(t1, Reply(500, FALSE, PyNone, "Erro ao buscar salas"))
       ELSE IF targets = 0
       THEN Respond(t1, Reply(200, TRUE, PyNone, "Nenhuma sala encontrada"))
       ELSE Respond(t2, [Reply(200, TRUE, PyNone, "") EXCEPT !.count = Len(todo.ids)])

\* tasks() from fetch_rooms on: the targets are the ids of the rooms, every
\* target is fetched from the mock or from the remote service
TasksFetchLegacy(m, t, rooms, todo) ==
    LET r  == IF m THEN MockRooms ELSE rooms
        t1 == WithCalls(t, 1, IF m THEN "mock:rooms" ELSE "remote:rooms")
        t2 == WithCalls(t1, Len(r.ids), IF m THEN "mock:tasks" ELSE "remote:tasks")
        d  == IF m THEN MockTodo ELSE todo
    IN IF r.kind # "ok"
       THEN Respond(t1, Reply(500, FALSE, PyNone, "500 Server Error"))
       ELSE IF ~r.isDict
       THEN Respond(t1, Reply(500, FALSE, PyNone,
                              "AttributeError: object has no attribute 'get'"))
       ELSE Respond(t2, [Reply(200, TRUE, PyNone, "") EXCEPT
                             !.count = Len(r.ids) * Len(d.ids)])

TasksFetch(v, m, t, rooms, todo) ==
    IF v = "full" THEN TasksFetchFull(m, t, rooms, todo)
    ELSE TasksFetchLegacy(m, t, rooms, todo)

TasksBegin(i) ==
    /\ thr[i].op = "tasks"
    /\ thr[i].pc = "start"
    /\ thr' = [thr EXCEPT ![i] = TasksStart(variant, thr[i])]
    /\ UNCHANGED <<cfgVars, taskVars, batchVars, tjVars, pushes>>

\* the rooms and the tasks of every target are fetched, the response is
\* returned; endpoint_tasks counts the fetch
TasksRooms(i) ==
    /\ thr[i].op = "tasks"
    /\ thr[i].pc = "rooms"
    /\ \E rooms \in RoomsAnswers, todo \in TodoAnswers :
          /\ thr' = [thr EXCEPT ![i] = TasksFetch(variant, mock, thr[i], rooms, todo)]
          /\ METRICS' = IF variant = "full" /\ (mock \/ rooms.kind = "ok")
                        THEN [METRICS EXCEPT !.total_fetch_tasks = @ + 1]
                        ELSE METRICS
    /\ UNCHANGED <<cfgVars, taskVars, tjVars, tasks, fut, outs, results, returned, pushes>>

(***************************************************************************)
(* SpecTasks: one /tasks request with any body, served by endpoint_tasks   *)
(* or by tasks, against the remote service or the mock.                    *)
(***************************************************************************)
TasksBodies ==
    {[kind |-> k, ra |-> PyNone, password |-> PyNone, auth_token |-> PyNone] :
        k \in {"none", "list"}}
    \cup {[kind |-> "dict", ra |-> PyNone, password |-> PyNone, auth_token |-> tok] :
             tok \in {PyNone, PyStr(""), PyStr("tok"), PyStr("mock-token-123456")}}

InitTasks ==
    /\ variant \in Variants
    /\ mock \in BOOLEAN
    /\ time_min = [num |-> TRUE, n |-> 1]
    /\ time_max = [num |-> TRUE, n |-> 1]
    /\ is_draft = PyBool(FALSE)
    /\ thr \in {<<NewRequest("tasks", b)>> : b \in TasksBodies}
    /\ pushes = 0
    /\ IdleTask
    /\ IdleBatch
    /\ tj_details = NoDetails
    /\ tj_answers_in = NoAnswersIn
    /\ tj_out = NotCalled
    /\ tj_again = NotCalled

NextTasks ==
    \/ \E i \in DOMAIN thr : TasksBegin(i)
    \/ \E i \in DOMAIN thr : CounterRead(i)
    \/ \E i \in DOMAIN thr : CounterWrite(i)
    \/ \E i \in DOMAIN thr : TasksRooms(i)

SpecTasks == InitTasks /\ [][NextTasks]_vars

(***************************************************************************)
(* SpecHistory: threads serving /task/process requests one after the       *)
(* other; each request counts its outcome and pushes it to the history.    *)
(* The k-th outcome pushed is Outcome(k).                                  *)
(***************************************************************************)
Outcome(k) ==
    [NewRun.result EXCEPT !.task_id = PyInt(ToString(k)),
                          !.error = PyStr("transform_json_for_submission() got an unexpected keyword argument 'answers_in'")]

ProcessBody == [kind |-> "dict", ra |-> PyNone, password |-> PyNone,
                auth_token |-> PyStr("tok")]

\* the threads that counted an outcome and have not pushed it yet
Pushing == {i \in DOMAIN thr : thr[i].op = "process" /\ thr[i].pc = "push"}

\* metrics_increment("total_submission_errors", 1)
ProcessCount(i) ==
    /\ thr[i].op = "process"
    /\ thr[i].pc = "start"
    /\ pushes + Cardinality(Pushing) < MaxPushes
    /\ METRICS' = metrics_increment(METRICS, "total_submission_errors")
    /\ thr' = [thr EXCEPT ![i].pc = "push"]
    /\ UNCHANGED <<cfgVars, taskVars, tjVars, tasks, fut, outs, results, returned, pushes>>

\* metrics_push_processed(res), then return jsonify(res)
ProcessPush(i) ==
    /\ thr[i].op = "process"
    /\ thr[i].pc = "push"
    /\ METRICS' = metrics_push_processed(METRICS, Outcome(pushes + 1))
    /\ pushes' = pushes + 1
    /\ thr' = [thr EXCEPT ![i].pc = "done"]
    /\ UNCHANGED <<cfgVars, taskVars, tjVars, tasks, fut, outs, results, returned>>

\* the thread serves the next /task/process request
ServeNext(i) ==
    /\ thr[i].op = "process"
    /\ thr[i].pc = "done"
    /\ thr' = [thr EXCEPT ![i].pc = "start"]
    /\ UNCHANGED <<cfgVars, taskVars, batchVars, tjVars, pushes>>

InitHistory ==
    /\ variant = "full"
    /\ mock = FALSE
    /\ time_min = [num |-> TRUE, n |-> 1]
    /\ time_max = [num |-> TRUE, n |-> 1]
    /\ is_draft = PyBool(FALSE)
    /\ thr \in {[i \in 1..n |-> NewRequest("process", ProcessBody)] : n \in 1..MaxThreads}
    /\ pushes = 0
    /\ IdleTask
    /\ IdleBatch
    /\ tj_details = NoDetails
    /\ tj_answers_in = NoAnswersIn
    /\ tj_out = NotCalled
    /\ tj_again = NotCalled

NextHistory ==
    \/ \E i \in DOMAIN thr : ProcessCount(i)
    \/ \E i \in DOMAIN thr : ProcessPush(i)
    \/ \E i \in DOMAIN thr : ServeNext(i)

SpecHistory == InitHistory /\ [][NextHistory]_vars

(***************************************************************************)
(* SpecMetrics: a /complete batch served by endpoint_complete (the worker  *)
(* pool and the request thread's loop, in mock mode) while other request   *)
(* threads update the same metrics: thread 1 is the loop of a second       *)
(* /complete request with the same number of tasks, the other threads      *)
(* serve one /task/process request each.                                   *)
(***************************************************************************)
\* the loop over as_completed of the second batch: metrics_increment for
\* the next finished future (thr[i].tmp futures were handled so far)
LoopCount(i) ==
    /\ thr[i].op = "complete"
    /\ thr[i].pc = "start"
    /\ thr[i].tmp < Len(tasks)
    /\ METRICS' = metrics_increment(METRICS, "total_submission_errors")
    /\ thr' = [thr EXCEPT ![i].pc = "push"]
    /\ UNCHANGED <<cfgVars, taskVars, tjVars, tasks, fut, outs, results, returned, pushes>>

\* metrics_push_processed(r) for that future; after the last one the
\* response is returned
LoopPush(i) ==
    /\ thr[i].op = "complete"
    /\ thr[i].pc = "push"
    /\ METRICS' = metrics_push_processed(METRICS, Outcome(pushes + 1))
    /\ pushes' = pushes + 1
    /\ thr' = [thr EXCEPT ![i].tmp = @ + 1,
                          ![i].pc = IF thr[i].tmp + 1 = Len(tasks) THEN "done" ELSE "start"]
    /\ UNCHANGED <<cfgVars, taskVars, tjVars, tasks, fut, outs, results, returned>>

InitMetrics ==
    /\ variant = "full"
    /\ mock = TRUE
    /\ time_min = [num |-> TRUE, n |-> 1]
    /\ time_max = [num |-> TRUE, n |-> 1]
    /\ is_draft = PyBool(FALSE)
    /\ tasks \in {[i \in 1..k |-> GoodTask] : k \in 1..MetricsTasks}
    /\ fut = Submitted(tasks)
    /\ outs = [i \in 1..Len(tasks) |-> NoOutcome]
    /\ results = <<>>
    /\ returned = FALSE
    /\ METRICS = NoMetrics
    /\ thr \in {[i \in 1..n |-> IF i = 1 THEN NewRequest("complete", ProcessBody)
                                ELSE NewRequest("process", ProcessBody)] :
                   n \in 1..MetricsThreads}
    /\ pushes = 0
    /\ IdleTask
    /\ IdleTransform

NextMetrics ==
    \/ \E i \in DOMAIN fut : WorkerStart(i)
    \/ \E i \in DOMAIN fut : WorkerFinish(i)
    \/ \E i \in DOMAIN fut : Collect(i)
    \/ Return
    \/ \E i \in DOMAIN thr : LoopCount(i)
    \/ \E i \in DOMAIN thr : LoopPush(i)
    \/ \E i \in DOMAIN thr : ProcessCount(i)
    \/ \E i \in DOMAIN thr : ProcessPush(i)

SpecMetrics == InitMetrics /\ [][NextMetrics]_vars

(***************************************************************************)
(* Properties.                                                             *)
(***************************************************************************)
Returned == run.pc = "returned"
Failed   == Returned /\ ~run.result.success

\* C1: the task processor never raises to its caller; it always returns an
\* outcome, and a failed outcome carries a non-empty error string.
C1_NeverRaises ==
    /\ run.pc # "raised"
    /\ Failed => run.result.error.t = "str" /\ run.result.error.v # ""

\* C2: a batch of K >= 1 assignments returns exactly K outcomes, one per
\* input assignment, whichever of the task pipelines fail or raise.
C2_Cardinality ==
    /\ Len(results) = Cardinality({i \in DOMAIN fut : fut[i] = "collected"})
    /\ returned => Len(results) = Len(tasks)

C2_Witness ==
    /\ returned
    /\ Len(tasks) >= 2
    /\ \E i \in DOMAIN outs : outs[i].raised
    /\ \E i \in DOMAIN outs : ~outs[i].raised /\ outs[i].result.success

\* the fetched details carry a list of questions that are all objects
WellFormed(d) == d.present /\ ~d.wrap /\ d.hasQ /\ \A i \in 1..Len(d.qs) : d.qs[i].isDict

\* the fetch call of the outcome succeeded, and its submit call did not fail
OwnRemoteCallsOk(o) ==
    /\ o.fetchCalls = 1
    /\ Len(o.log) >= 2 /\ o.log[2] = "DetailsFetched"
    /\ WellFormed(o.details)
    /\ o.submitCalls = 1 => o.result.success

\* C3: in a batch, a well-formed assignment whose own fetch and submit calls
\* succeed gets success = true, whatever happens to its siblings.
C3_Isolation ==
    \A i \in DOMAIN fut :
        ( /\ fut[i] \in {"done", "collected"}
          /\ tasks[i].isDict /\ Truthy(tasks[i].id)
          /\ time_min.n <= time_max.n
          /\ OwnRemoteCallsOk(outs[i]) )
        => outs[i].result.success

\* C4: the number of task pipelines in flight never exceeds min(6, K).
C4_BoundedWorkers == Cardinality(InFlight) <= Min(WorkerBound, Len(tasks))

C4_Witness ==
    /\ Len(tasks) > WorkerBound
    /\ Cardinality(InFlight) = WorkerBound
    /\ \E i \in DOMAIN fut : fut[i] = "pending"

\* C5: the batch returns only after every submitted unit of work has
\* finished; a failed unit never makes it return while others are pending
\* or running.
C5_Barrier == returned => \A i \in DOMAIN fut : fut[i] = "collected"

C5_Witness ==
    /\ returned
    /\ Len(tasks) >= 2
    /\ \E i \in DOMAIN outs : ~outs[i].result.success
    /\ results # <<>>

StepOrder == <<"Started", "DetailsFetched", "Transformed", "Paced", "Submitted">>
IsPrefix(s, t) == Len(s) <= Len(t) /\ \A i \in 1..Len(s) : s[i] = t[i]
Ended(l) == Len(l) > 0 /\ l[Len(l)] \in {"Failed", "Raised"}

\* C6: the steps of one run occur only in the order Started, DetailsFetched,
\* Transformed, Paced, Submitted; the submit call is issued only after the
\* fetch returned and the transform produced a payload, and after a failed
\* step no later step is performed.
C6_StepOrder ==
    /\ IsPrefix(IF Ended(run.log) THEN SubSeq(run.log, 1, Len(run.log) - 1) ELSE run.log,
                StepOrder)
    /\ Ended(run.log) => run.pc \in {"returned", "raised"}
    /\ run.submitCalls > 0 =>
          /\ IsPrefix(<<"Started", "DetailsFetched", "Transformed", "Paced">>, run.log)
          /\ run.payload.present
          /\ run.sent = run.payload

C6_Witness ==
    /\ Returned /\ run.result.success
    /\ run.log = StepOrder

\* the assignment is an object without a usable identifier
NoIdentifier(t) == t.isDict /\ ~Truthy(t.id) /\ ~Truthy(t.task_id) /\ ~Truthy(t.uid)

\* C7: an assignment without identifier gets a failed outcome and no remote
\* call (neither fetch nor submit) is issued for it.
C7_NoIdNoRemoteCall ==
    NoIdentifier(task_obj) =>
        /\ run.fetchCalls = 0 /\ run.submitCalls = 0
        /\ run.pc \in {"start", "returned"}
        /\ Returned => ~run.result.success /\ run.result.error = PyStr("task sem id")

C7_Witness == NoIdentifier(task_obj) /\ Failed /\ task_obj.id = PyInt("0")

\* C8: in one run the fetch call is issued at most once and the submit call
\* at most once; a successful outcome has exactly one submit, and a failed
\* remote call ends the run (it is not retried).
C8_AtMostOnce ==
    /\ run.fetchCalls <= 1 /\ run.submitCalls <= 1
    /\ (Returned /\ run.result.success) => run.fetchCalls = 1 /\ run.submitCalls = 1
    /\ (run.submitCalls = 1 /\ ~(Returned /\ run.result.success)) => Failed

C8_Witness == Failed /\ run.submitCalls = 1 /\ run.fetchCalls = 1

\* C9: every payload handed to the submit call has final = true exactly when
\* status = "submitted", final = false exactly when status = "draft", and
\* final is the negation of the draft flag.
C9_FinalStatus ==
    run.sent.present =>
        /\ run.sent.final <=> run.sent.status = "submitted"
        /\ ~run.sent.final <=> run.sent.status = "draft"
        /\ run.sent.final = ~Truthy(is_draft)

C9_Witness == run.sent.present /\ is_draft = PyStr("false") /\ run.sent.status = "draft"

\* the question_type an entry made from question q may carry
TypesOf(def, q) ==
    IF def = 2 THEN {q.qtype}
    ELSE {RawType(q)} \cup
         (IF ~Truthy(q.qtype) THEN {PyStr("")}
          ELSE IF q.qtype.t = "str" THEN {PyStr(Strip(q.qtype.v))} ELSE {})

\* the identifier the definition reads from question q
QidOf(def, q) == IF def = 2 THEN q.id ELSE PyOr(PyOr(q.id, PyNone), PyNone)

C11_BadQuestionIsolated ==
    tj_out.def # 0 =>
        /\ ~tj_out.raised
        /\ \A i \in 1..Len(tj_details.qs) :
              tj_details.qs[i].isDict =>
                  PyToStr(QidOf(tj_out.def, tj_details.qs[i])) \in DOMAIN tj_out.answers

\* the questions of the fetched task the transform step reads
FetchedQuestions == IF run.details.present /\ run.details.hasQ /\ ~run.details.wrap
                    THEN run.details.qs ELSE <<>>

\* the transform step of the run is over
TransformDone == run.details.present /\ run.pc \in {"pace", "submit", "returned"}

\* C12: when the assignment carries a well-formed answer for a question of
\* the fetched task, the payload built by the task processor's transform step
\* holds exactly that answer under the question's id.
C12_PassThrough ==
    \A i \in 1..Len(FetchedQuestions) :
        LET q == FetchedQuestions[i]
            k == PyToStr(q.id)
        IN (/\ TransformDone
            /\ \A j \in 1..Len(FetchedQuestions) : FetchedQuestions[j].isDict
            /\ task_obj.isDict
            /\ task_obj.answers.isDict
            /\ \E n \in 1..Len(task_obj.answers.entries) : task_obj.answers.entries[n].k = k
            /\ Provided(task_obj.answers, k).isDict
            /\ Provided(task_obj.answers, k).hasAnswer)
           => /\ run.payload.present
              /\ k \in DOMAIN run.payload.answers
              /\ run.payload.answers[k].answer = AnsVal(Provided(task_obj.answers, k).answer)

\* C13: calling the transform a second time on the same fetched task gives
\* the same answer keys and the same answers as the first call.
C13_Idempotent ==
    tj_again.def # 0 =>
        /\ tj_again.raised = tj_out.raised
        /\ tj_again.answers = tj_out.answers

\* the one question of a task of the synthesizer specification and the
\* answer the call under observation gave it
TheQuestion == tj_details.qs[1]
TheAnswer   == tj_out.answers[PyToStr(TheQuestion.id)].answer
Answered    == /\ tj_out.def # 0
               /\ ~tj_out.raised
               /\ PyToStr(TheQuestion.id) \in DOMAIN tj_out.answers

\* options is {"phrase": [...]}
HasPhrase == /\ TheQuestion.opts.shape = "dict"
             /\ HasKey(TheQuestion.opts, "phrase")
             /\ AtKey(TheQuestion.opts, "phrase").kind = "list"
ThePhrase == AtKey(TheQuestion.opts, "phrase").list

\* C14: for a fill-words question with a phrase of N items the answer is the
\* list of the floor(N/2) items at odd 0-based indices, in order: each
\* item's value, or the raw string.
C14_FillWordsOdd ==
    (tj_out.def # 0 /\ TheQuestion.qtype = PyStr("fill-words") /\ HasPhrase)
    => /\ Answered
       /\ TheAnswer = AnsList([j \in 1..(Len(ThePhrase) \div 2) |-> ThePhrase[2 * j].value])

\* the options of the question, and the positions of the options marked
\* correct (correct == true)
TheOptions == TheQuestion.opts.items
MarkedCorrect == {i \in 1..Len(TheOptions) :
                     TheOptions[i].kind = "dict" /\ TheOptions[i].correct = PyBool(TRUE)}

\* C15: for a multiple_choice question whose options are a list with at
\* least one option marked correct, the answer is the id of the first such
\* option.
C15_FirstCorrectId ==
    (/\ tj_out.def # 0
     /\ TheQuestion.qtype = PyStr("multiple_choice")
     /\ TheQuestion.opts.shape = "list"
     /\ MarkedCorrect # {})
    => /\ Answered
       /\ TheAnswer = AnsVal(TheOptions[FirstIdx(MarkedCorrect)].id)

\* C16: for a multiple_choice question whose options are a non-empty list
\* with no option marked correct, the answer is the id of the first option.
C16_FirstOptionId ==
    (/\ tj_out.def # 0
     /\ TheQuestion.qtype = PyStr("multiple_choice")
     /\ TheQuestion.opts.shape = "list"
     /\ Len(TheOptions) > 0
     /\ TheOptions[1].kind = "dict"
     /\ MarkedCorrect = {})
    => /\ Answered
       /\ TheAnswer = AnsVal(TheOptions[1].id)

\* C17: for a multiple_choice or single_choice question whose options are a
\* keyed map, the answer is the first key whose value is marked correct, and
\* the first key of the map when no value is marked.
C17_KeyedMapChoice ==
    (/\ tj_out.def # 0
     /\ TheQuestion.qtype \in {PyStr("multiple_choice"), PyStr("single_choice")}
     /\ TheQuestion.opts.shape = "dict"
     /\ Len(TheOptions) > 0)
    => /\ Answered
       /\ TheAnswer = AnsVal(PyStr(TheOptions[IF MarkedCorrect # {}
                                              THEN FirstIdx(MarkedCorrect) ELSE 1].key))

\* the spellings of each type tag of the dispatch (hyphen, underscore,
\* camelCase, capitals), first the spelling the code compares with
TagSpellings ==
    { <<"order-sentences", "order_sentences", "orderSentences">>,
      <<"fill-words", "fill_words", "fillWords", "Fill-Words">>,
      <<"text_ai", "text-ai", "textAi">>,
      <<"long_text", "long-text">>,
      <<"fill-letters", "fill_letters", "fillLetters">>,
      <<"cloud", "Cloud">>,
      <<"multiple_choice", "multiple-choice", "multipleChoice">>,
      <<"single_choice", "single-choice", "singleChoice">> }

\* the answer definition def gives question q when it is the only question
SynthAnswer(def, q, rnd) ==
    LET d   == [present |-> TRUE, wrap |-> FALSE, hasQ |-> TRUE, qs |-> <<q>>]
        res == IF def = 1 THEN transform_json_for_submission_1(d, NoAnswersIn, rnd)
               ELSE transform_json_for_submission_2(d)
    IN res.answers[PyToStr(q.id)].answer

\* C18: every spelling of a type tag is dispatched to the same policy: the
\* answer of a question is the answer the same definition gives the question
\* with the first spelling of its tag.
C18_SpellingsSamePolicy ==
    \A sp \in TagSpellings :
        (/\ tj_out.def # 0
         /\ \E i \in 1..Len(sp) : TheQuestion.qtype = PyStr(sp[i]))
        => /\ Answered
           /\ \E rnd \in Rnds :
                 TheAnswer = SynthAnswer(tj_out.def,
                                         [TheQuestion EXCEPT !.qtype = PyStr(sp[1])], rnd)

\* what an option contributes to the map of an unknown type: the answer
\* field of a structured option (false when it has none), bool(v) of a raw
\* value
OptionEntry(o) == IF o.kind = "dict"
                  THEN (IF o.hasAnswer THEN o.answer ELSE PyBool(FALSE))
                  ELSE PyBool(OptTruthy(o))

\* C19: for a question of an unknown type the answer is a keyed map with one
\* entry per option, in order: the answer field of a structured option or
\* false, and the boolean of a raw scalar; for options that are a keyed map
\* the entry stands under the option's key.
C19_UnknownTypeMap ==
    (/\ tj_out.def # 0
     /\ TheQuestion.qtype = PyStr("matrix")
     /\ TheQuestion.opts.shape \in {"dict", "list"})
    => /\ Answered
       /\ TheAnswer.shape = "map"
       /\ Len(TheAnswer.map) = Len(TheOptions)
       /\ \A i \in 1..Len(TheOptions) :
             /\ TheAnswer.map[i].v = OptionEntry(TheOptions[i])
             /\ TheQuestion.opts.shape = "dict" => TheAnswer.map[i].k = TheOptions[i].key

\* options.ids is a list
IdsIsList == /\ TheQuestion.opts.shape = "dict"
             /\ HasKey(TheQuestion.opts, "ids")
             /\ AtKey(TheQuestion.opts, "ids").kind = "list"

\* C20: for a cloud question the answer is options.ids when it is a list
\* ([7, 9] gives [7, 9]) and the empty list when ids is absent or not a list.
C20_CloudIds ==
    (tj_out.def # 0 /\ TheQuestion.qtype = PyStr("cloud"))
    => /\ Answered
       /\ TheAnswer = IF IdsIsList THEN ValueOf(AtKey(TheQuestion.opts, "ids"))
                      ELSE AnsList(<<>>)

\* the pacing block ran and drew a delay
Paced == run.pc = "submit" /\ run.simulated >= 0

C22_SleepCapped ==
    Paced => /\ run.slept = Min(run.simulated, SleepCap)
             /\ run.slept <= SleepCap
             /\ run.simulated \in DelayRange(variant, time_min, time_max)

C22_Witness == Paced /\ run.simulated > SleepCap /\ run.slept = SleepCap

RECURSIVE SumIncs(_)
\* the number of increments the first n threads performed
SumIncs(n) == IF n = 0 THEN 0 ELSE thr[n].incs + SumIncs(n - 1)

\* C23: no increment of a metrics counter is lost: when every request has
\* been served, total_logins is the number of increments performed on it.
C23_NoLostIncrement ==
    (\A i \in DOMAIN thr : thr[i].pc = "done")
    => METRICS.total_logins = SumIncs(Len(thr))

\* C24: after any sequence of pushes the history holds at most 200 entries:
\* the most recently pushed outcomes, in push order.
C24_HistoryBounded ==
    LET h == METRICS.processed_tasks_history
    IN (\E i \in DOMAIN thr : thr[i].op = "process")
       => /\ Len(h) = Min(pushes, HistoryLimit)
          /\ \A k \in 1..Len(h) : h[k] = Outcome(pushes - Len(h) + k)

C24_Witness ==
    /\ pushes > HistoryLimit
    /\ Len(METRICS.processed_tasks_history) = HistoryLimit
    /\ METRICS.processed_tasks_history[1] = Outcome(pushes - HistoryLimit + 1)
    /\ Len(thr) >= 2

\* the body of an /auth request is an object without ra or without password
\* (missing, null or empty)
NoCredentials(t) ==
    /\ t.op = "auth"
    /\ t.body.kind = "dict"
    /\ (~Truthy(t.body.ra) \/ ~Truthy(t.body.password))

\* C25: a login with an empty or missing identifier or secret is answered
\* with an input error (status 400, success false), and neither the remote
\* login nor the mock login is called.
C25_NoCredentialsNoCall ==
    \A i \in DOMAIN thr :
        NoCredentials(thr[i])
        => /\ thr[i].calls = <<>>
           /\ thr[i].pc = "done" => (thr[i].resp.status = 400 /\ ~thr[i].resp.success)

C25_Witness ==
    \E i \in DOMAIN thr :
        /\ thr[i].pc = "done"
        /\ thr[i].body.kind = "dict"
        /\ Truthy(thr[i].body.ra)
        /\ thr[i].body.password = PyStr("")
        /\ thr[i].resp.status = 400

\* C26: a login never reports success with a missing or null session token.
C26_SuccessHasToken ==
    \A i \in DOMAIN thr :
        (thr[i].op = "auth" /\ thr[i].pc = "done" /\ thr[i].resp.success)
        => Truthy(thr[i].resp.auth_token)

\* C27: no handler lets an exception escape: every request, whatever its
\* body, is answered with a result structure.
C27_NeverThrows ==
    \A i \in DOMAIN thr :
        /\ thr[i].pc # "raised"
        /\ thr[i].pc = "done" => thr[i].resp.status # 0

\* the calls that reach the remote platform
RemoteCalls == {"remote:login", "remote:rooms", "remote:tasks"}

\* C28: in mock mode no call of a request reaches the remote platform.
C28_MockNoRemoteCall ==
    mock => \A i \in DOMAIN thr :
                \A k \in 1..Len(thr[i].calls) : thr[i].calls[k] \notin RemoteCalls

\* C29: every started batch eventually returns, with one outcome for every
\* submitted task, whatever the number of tasks relative to the worker
\* bound.
C29_BatchReturns ==
    <>(returned /\ AllCollected /\ Len(results) = Len(tasks))

C29_Witness == returned /\ Len(tasks) > WorkerBound /\ Len(results) = Len(tasks)

\* the identifier process_one_task_full finds in the assignment
IdOf(t) == IF t.isDict THEN PyOr(PyOr(t.id, t.task_id), t.uid) ELSE PyNone

\* the submit call of the run returned normally
SubmitReturned == run.answer.present

\* C30: an outcome of process_one_task_full has success = true exactly when
\* the submit call returned normally; then response is what the remote
\* service answered and error is null, otherwise response is null and error
\* is a string.  When the assignment had an identifier, task_id carries it
\* and end is set.
C30_OutcomeShape ==
    (variant = "full" /\ Returned) =>
        /\ run.result.success <=> SubmitReturned
        /\ run.result.success =>
              run.result.response = run.answer /\ run.result.error = PyNone
        /\ ~run.result.success =>
              run.result.response = NoResponse /\ run.result.error.t = "str"
        /\ Truthy(IdOf(task_obj)) =>
              run.result.task_id = IdOf(task_obj) /\ run.result.end # PyNone

C30_Witness ==
    /\ variant = "full"
    /\ ~mock
    /\ Returned
    /\ run.result.success
    /\ run.result.response = [present |-> TRUE, body |-> "remote-2"]
    /\ run.result.task_id = GoodTask.id
    /\ run.result.end = NowIso

\* the run ended in a failure without a submit call
FailedBeforeSubmit == Returned /\ ~run.result.success /\ run.submitCalls = 0

\* C31: for integer pacing inputs, also with time_max < time_min or values
\* below 1, the range the simulated delay is drawn from is not empty, and a
\* run that reached the pacing block does not fail before the submit call.
C31_RangeNonEmpty ==
    (run.pc # "idle" /\ time_min.num /\ time_max.num) =>
        /\ SecMin(variant, time_min) <= SecMax(variant, time_min, time_max)
        /\ ~FailedBeforeSubmit

\* C32: the lower bound of the simulated delay is at least 60 seconds, so
\* the real wait before the submit call is 5 seconds for every pacing input.
C32_WaitIsCap ==
    Paced => /\ SecMin(variant, time_min) >= 60
             /\ run.simulated >= 60
             /\ run.slept = SleepCap

C32_Witness ==
    /\ Paced
    /\ time_min.n = 0
    /\ time_max.n = MaxMinutes
    /\ run.simulated = SecMin(variant, time_min)
    /\ run.slept = SleepCap

\* the futures of the batch the request thread has handled
Collected == {i \in DOMAIN fut : fut[i] = "collected"}

RECURSIVE CountedBy(_)
\* the outcomes the first n request threads have counted
CountedBy(n) ==
    IF n = 0 THEN 0
    ELSE CountedBy(n - 1)
         + (IF thr[n].op = "complete"
            THEN thr[n].tmp + (IF thr[n].pc = "push" THEN 1 ELSE 0)
            ELSE IF thr[n].pc \in {"push", "done"} THEN 1 ELSE 0)

\* every request has returned
AllServed == returned /\ \A i \in DOMAIN thr : thr[i].pc = "done"

\* C33: a batch of K tasks served by endpoint_complete adds exactly K to
\* total_submissions + total_submission_errors (the successful outcomes to
\* the first, the failed ones to the second) and pushes exactly K outcomes
\* to the history, also while a second batch and single-task requests
\* update the metrics.
C33_BatchCounted ==
    /\ METRICS.total_submissions
         = Cardinality({i \in Collected : outs[i].result.success})
    /\ METRICS.total_submission_errors
         = Cardinality({i \in Collected : ~outs[i].result.success})
           + CountedBy(Len(thr))
    /\ Len(METRICS.processed_tasks_history) = Cardinality(Collected) + pushes
    /\ AllServed =>
          /\ METRICS.total_submissions + METRICS.total_submission_errors
               = Len(tasks) + CountedBy(Len(thr))
          /\ Len(METRICS.processed_tasks_history) = Len(tasks) + pushes
          /\ pushes = CountedBy(Len(thr))

C33_Witness ==
    /\ AllServed
    /\ Len(tasks) = MetricsTasks
    /\ Len(thr) = MetricsThreads
    /\ METRICS.total_submission_errors = 2 * MetricsTasks + MetricsThreads - 1
    /\ Len(METRICS.processed_tasks_history) = 2 * MetricsTasks + MetricsThreads - 1

=============================================================================
